---- MODULE Spec2Model ----
(***************************************************************************)
(* terminal-banana: the alpha-channel extraction engines of src/alpha.ts.  *)
(*                                                                         *)
(*   extractAlphaTwoPass    difference matting of a white-pass and a       *)
(*                          black-pass render of the same content          *)
(*   removeBackgroundLocal  local chroma key against one background colour *)
(*                                                                         *)
(* A raw RGBA buffer is a sequence of pixels <<r, g, b, a>>; the byte      *)
(* offset i * 4 of the code is pixel i + 1 here, and the byte length of a  *)
(* buffer is four times its number of pixels.                              *)
(*                                                                         *)
(* The code computes in IEEE doubles.  Every comparison and rounding it    *)
(* makes is decided here exactly, on integers: an inequality between       *)
(* a square root and a rational is squared, and the two products are       *)
(* compared as fractions (FracLe) so that nothing leaves 32 bits.  Where   *)
(* the exact quotient of the colour recovery is k + 1/2 the double         *)
(* quotient falls on either side of it, depending on how alpha was         *)
(* rounded, and both results are allowed (RecoverChannel).                 *)
(***************************************************************************)
EXTENDS Integers, Sequences, FiniteSets, TLC

VARIABLES
    pc,            \* where the current call stands
    whiteFile,     \* two-pass: the decoded content of imgOnWhitePath
    blackFile,     \* two-pass: the decoded content of imgOnBlackPath
    dataWhite,     \* two-pass: raw buffer of the white pass
    dataBlack,     \* two-pass: raw buffer of the black pass
    meta,          \* two-pass: info of the white pass (width, height)
    outputBuffer,  \* two-pass: the buffer the loop fills
    inputFile,     \* local: the decoded content of inputPath
    options,       \* local: the options object (bgColor, tolerance)
    data,          \* local: raw buffer, mutated in place
    info,          \* local: width and height of the input
    tolerance,     \* local: options.tolerance ?? 30
    bgColor,       \* local: the background colour in use
    prior,         \* local: the output of the call before, when this call reads it
    i,             \* the loop index of the per-pixel loop
    outFile,       \* what has been written to outputPath
    err,           \* the error the call threw
    now,           \* pipeline: Date.now()
    apiKey,        \* pipeline: an API key is configured
    files,         \* pipeline: the files of the output directory, by name
    stage,         \* pipeline: where each call stands
    fn,            \* pipeline: the function each call is a call of
    callOpts,      \* pipeline: inputPath exists, and options.method, of each call
    timestamp,     \* pipeline: the timestamp each call has taken
    did,           \* pipeline: the effects each call has had so far
    wrote,         \* pipeline: the names of the files each call has written
    decoded,       \* pipeline: the two passes each call has decoded
    failure,       \* pipeline: the error each call has thrown
    cli,           \* command line: where the process stands
    argv,          \* command line: the command and its flags
    configFile,    \* config: the content of CONFIG_PATH, if the file exists
    ret,           \* config: the last operation and what it returned
    lastSaved,     \* config: the config last saved and not cleared since
    corrupt,       \* config: the file was overwritten from outside since
    earlier,       \* config: lastSaved and corrupt before the last operation
    stdin,         \* prompt: process.stdin (isTTY, raw mode, data listener)
    keyPrompt      \* prompt: the call of promptForApiKey and its promise

engineVars == <<pc, whiteFile, blackFile, dataWhite, dataBlack, meta, outputBuffer,
                inputFile, options, data, info, tolerance, bgColor, prior, i,
                outFile, err>>

callVars == <<stage, fn, callOpts, timestamp, did, wrote, decoded, failure>>

pipelineVars == <<now, apiKey, files, callVars, cli, argv>>

storeVars == <<configFile, ret, lastSaved, corrupt, earlier>>

promptVars == <<stdin, keyPrompt>>

configVars == <<storeVars, promptVars>>

vars == <<engineVars, pipelineVars, configVars>>

(***************************************************************************)
(* Bounds of the model.                                                    *)
(***************************************************************************)
\* An image of the model holds at most this many pixels.
MaxPixels == 2

(***************************************************************************)
(* Values standing for "nothing".                                          *)
(***************************************************************************)
None == <<>>
NoImage == [width |-> 0, height |-> 0, data |-> <<>>]
NoColor == [r |-> -1, g |-> -1, b |-> -1]
NoOptions == [bgColor |-> <<>>, tolerance |-> <<>>]

(***************************************************************************)
(* Exact arithmetic.                                                       *)
(***************************************************************************)
RECURSIVE FracLe(_, _, _, _)
\* n1 / d1 <= n2 / d2, for n1, n2 >= 0 and d1, d2 > 0, by the Euclidean
\* expansion of the two fractions (no product is formed).
FracLe(n1, d1, n2, d2) ==
    LET q1 == n1 \div d1
        q2 == n2 \div d2
        r1 == n1 % d1
        r2 == n2 % d2
    IN  IF q1 # q2 THEN q1 < q2
        ELSE IF r1 = 0 THEN TRUE
        ELSE IF r2 = 0 THEN FALSE
        ELSE FracLe(d2, r2, d1, r1)

\* n1 / d1 = n2 / d2
FracEq(n1, d1, n2, d2) == FracLe(n1, d1, n2, d2) /\ FracLe(n2, d2, n1, d1)

\* Math.round(num / den) for den > 0: the nearest integer, a half rounds up.
MathRound(num, den) == (2 * num + den) \div (2 * den)

\* The largest k of 0..255 with P(k), for P true at 0 and downward closed:
\* a bisection, one bit of k at a time.
LargestByte(P(_)) ==
    LET Bit(k, w) == IF P(k + w) THEN k + w ELSE k
        b7 == Bit(0, 128)
        b6 == Bit(b7, 64)
        b5 == Bit(b6, 32)
        b4 == Bit(b5, 16)
        b3 == Bit(b4, 8)
        b2 == Bit(b3, 4)
        b1 == Bit(b2, 2)
    IN  Bit(b1, 1)

Bytes == 0..255

(***************************************************************************)
(* Images.                                                                 *)
(***************************************************************************)
Pixel(r, g, b, a) == <<r, g, b, a>>

\* The shapes of the model's images: width * height <= MaxPixels.
Shapes == {s \in (1..MaxPixels) \X (1..MaxPixels) : s[1] * s[2] <= MaxPixels}

\* All sequences of length n over S.
SeqsOf(S, n) == [1..n -> S]

\* The decoded RGBA images of the model: every shape over the palette
\* `narrow`, and the one-pixel images over the palette `wide` as well.
Images(narrow, wide) ==
    UNION {{[width |-> s[1], height |-> s[2], data |-> d] :
                d \in SeqsOf(IF s[1] * s[2] = 1 THEN narrow \cup wide ELSE narrow,
                             s[1] * s[2])} : s \in Shapes}

\* The colours whose channels are all of 0, 1, 128 and 255, opaque.
GridColours ==
    {<<r, g, b, 255>> : r \in {0, 1, 128, 255}, g \in {0, 1, 128, 255},
                        b \in {0, 1, 128, 255}}

\* buffer.length: four bytes a pixel.
ByteLength(buf) == 4 * Len(buf)

\* Buffer.alloc(n): n zero bytes, n a multiple of four.
BufferAlloc(n) == [p \in 1..(n \div 4) |-> Pixel(0, 0, 0, 0)]

\* The renders handed to difference matting: white, black, a grey whose
\* distance to (1,1,1) is 85 * sqrt(3) (alpha 2/3), and a near-black with a
\* transparent input alpha.
MattePalette ==
    { Pixel(255, 255, 255, 255), Pixel(0, 0, 0, 255), Pixel(86, 86, 86, 255),
      Pixel(1, 1, 1, 0) }

\* More renders, for one-pixel images: the grid, an opaque colour, and the
\* two colours nearest to white's alpha = 0.01 on either side (alpha is
\* 0.0103 against (8,0,0) and 0.0091 against (3,2,2)).
MatteSwatches ==
    GridColours \cup
    { Pixel(200, 100, 50, 255), Pixel(8, 0, 0, 255), Pixel(3, 2, 2, 255) }

(***************************************************************************)
(* Difference matting, per pixel.  alpha is the real number                *)
(* clamp(1 - sqrt(d) / bgDist, 0, 1) with d the squared distance of the    *)
(* two observed pixels; it is carried as d.                                *)
(***************************************************************************)
\* bgDist * bgDist
BgDistSq == 3 * 255 * 255

\* pixelDist * pixelDist
PixelDistSq(W, B) ==
    LET drWB == W[1] - B[1]
        dgWB == W[2] - B[2]
        dbWB == W[3] - B[3]
    IN  drWB * drWB + dgWB * dgWB + dbWB * dbWB

\* alpha > 0.01, that is sqrt(d / BgDistSq) < 99 / 100
AlphaAboveGuard(d) == d < BgDistSq /\ ~FracLe(99 * 99, 100 * 100, d, BgDistSq)

\* A slip: alpha = pixelDist / bgDist, the "1 -" forgotten.
AlphaByteInverted(d) ==
    IF d >= BgDistSq THEN 255
    ELSE LargestByte(LAMBDA k :
             \/ k = 0
             \/ FracLe((2 * k - 1) * (2 * k - 1), 510 * 510, d, BgDistSq))

\* A slip: Math.round(alpha * 256), which a byte keeps modulo 256.
AlphaByteTimes256(d) ==
    IF d >= BgDistSq THEN 0
    ELSE IF FracLe(d, BgDistSq, 1, 512 * 512) THEN 0
    ELSE LargestByte(LAMBDA k :
             FracLe(d, BgDistSq, (513 - 2 * k) * (513 - 2 * k), 512 * 512))

\* Math.round(alpha * 255): the largest k with k - 1/2 <= 255 * alpha, that
\* is sqrt(d / BgDistSq) <= (511 - 2k) / 510.
AlphaByte(d) ==
    IF d >= BgDistSq THEN 0
    ELSE LargestByte(LAMBDA k :
             FracLe(d, BgDistSq, (511 - 2 * k) * (511 - 2 * k), 510 * 510))

\* Math.round(Math.min(255, c / alpha)) where the guard holds, and 0
\* otherwise (rOut stays 0).  k - 1/2 <= c / alpha is
\* 2k - 1 - 2c <= (2k - 1) * sqrt(d / BgDistSq).  The set holds the results
\* the double arithmetic can give: two where c / alpha is exactly k - 1/2.
RecoverChannelIf(guard, c, d) ==
    IF ~guard THEN {0}
    ELSE LET X(k) == 2 * k - 1 - 2 * c
             Y(k) == 2 * k - 1
             Reach(k) == \/ k = 0
                         \/ X(k) <= 0
                         \/ FracLe(X(k) * X(k), Y(k) * Y(k), d, BgDistSq)
             Tie(k) == /\ k > 0
                       /\ X(k) > 0
                       /\ FracEq(X(k) * X(k), Y(k) * Y(k), d, BgDistSq)
             k == LargestByte(Reach)
         IN  IF Tie(k) THEN {k - 1, k} ELSE {k}

\* A slip: the guard the wrong way round, alpha < 0.01.
RecoverChannelGuardFlipped(c, d) == RecoverChannelIf(~AlphaAboveGuard(d), c, d)

\* A slip: the guard at alpha > 0.1.
RecoverChannelGuardTenth(c, d) ==
    RecoverChannelIf(d < BgDistSq /\ ~FracLe(9 * 9, 10 * 10, d, BgDistSq), c, d)

\* The recovered channel: un-premultiplied where alpha > 0.01.
RecoverChannel(c, d) == RecoverChannelIf(AlphaAboveGuard(d), c, d)

\* The pixels the loop body can write for white-pass pixel W and black-pass
\* pixel B.
DifferencePixels(W, B) ==
    LET d == PixelDistSq(W, B)
    IN  { Pixel(rOut, gOut, bOut, AlphaByte(d)) :
              rOut \in RecoverChannel(B[1], d),
              gOut \in RecoverChannel(B[2], d),
              bOut \in RecoverChannel(B[3], d) }

(***************************************************************************)
(* Colour specs.  A string is the sequence of its characters; an option    *)
(* that is undefined is the empty sequence (an empty string is as falsy).  *)
(***************************************************************************)
Auto == <<"a", "u", "t", "o">>
White == <<"w", "h", "i", "t", "e">>
Black == <<"b", "l", "a", "c", "k">>

HexDigits ==
    <<"0", "1", "2", "3", "4", "5", "6", "7", "8", "9", "a", "b", "c", "d", "e", "f">>
UpperHexDigits ==
    <<"0", "1", "2", "3", "4", "5", "6", "7", "8", "9", "A", "B", "C", "D", "E", "F">>

\* [0-9a-fA-F]
IsHexDigit(ch) ==
    \E n \in 1..16 : HexDigits[n] = ch \/ UpperHexDigits[n] = ch

\* The value of one hexadecimal digit.
HexValue(ch) ==
    (CHOOSE n \in 1..16 : HexDigits[n] = ch \/ UpperHexDigits[n] = ch) - 1

\* color.replace('#', ''): the first '#' is removed, wherever it stands.
RemoveFirstHash(color) ==
    IF \E n \in 1..Len(color) : color[n] = "#"
    THEN LET n == CHOOSE m \in 1..Len(color) :
                      /\ color[m] = "#"
                      /\ \A l \in 1..(m - 1) : color[l] # "#"
         IN  SubSeq(color, 1, n - 1) \o SubSeq(color, n + 1, Len(color))
    ELSE color

\* /^[0-9a-fA-F]{6}$/.test(hex)
IsHexColor(hex) == Len(hex) = 6 /\ \A n \in 1..6 : IsHexDigit(hex[n])

\* parseInt(hex.slice(from, from + 2), 16), from counted from 0
ParseHexByte(hex, from) == 16 * HexValue(hex[from + 1]) + HexValue(hex[from + 2])

\* parseColor throws for this spec.
ParseColorThrows(color) ==
    /\ color # White
    /\ color # Black
    /\ ~IsHexColor(RemoveFirstHash(color))

\* parseColor(color), where it does not throw.
ParseColor(color) ==
    IF color = White THEN [r |-> 255, g |-> 255, b |-> 255]
    ELSE IF color = Black THEN [r |-> 0, g |-> 0, b |-> 0]
    ELSE LET hex == RemoveFirstHash(color)
         IN  [r |-> ParseHexByte(hex, 0),
              g |-> ParseHexByte(hex, 2),
              b |-> ParseHexByte(hex, 4)]

InvalidHexColor == "Invalid hex color"

(***************************************************************************)
(* The local chroma key, per pixel.                                        *)
(***************************************************************************)
DefaultTolerance == 30

\* A slip: || for ??, which takes a tolerance of 0 for none given.
ToleranceOfFalsy(opts) ==
    IF opts.tolerance = <<>> \/ opts.tolerance[1] = 0
    THEN DefaultTolerance
    ELSE opts.tolerance[1]

\* options.tolerance ?? 30
ToleranceOf(opts) ==
    IF opts.tolerance = <<>> THEN DefaultTolerance ELSE opts.tolerance[1]

\* A slip: the corner sum divided with Math.floor instead of Math.round.
CornerBackgroundFloor(buf, width, height) ==
    LET Sum(ch) == buf[1][ch] + buf[width][ch]
                   + buf[(height - 1) * width + 1][ch] + buf[height * width][ch]
    IN  [r |-> Sum(1) \div 4, g |-> Sum(2) \div 4, b |-> Sum(3) \div 4]

\* The background sampled from the four corners: per channel,
\* Math.round(sum / 4).
CornerBackground(buf, width, height) ==
    LET corners == << 0,
                      width - 1,
                      (height - 1) * width,
                      (height - 1) * width + (width - 1) >>
        Sum(ch) == buf[corners[1] + 1][ch] + buf[corners[2] + 1][ch]
                   + buf[corners[3] + 1][ch] + buf[corners[4] + 1][ch]
    IN  [r |-> MathRound(Sum(1), 4),
         g |-> MathRound(Sum(2), 4),
         b |-> MathRound(Sum(3), 4)]

\* distSquared of a pixel to the background
DistSquared(px, bg) ==
    LET dr == px[1] - bg.r
        dg == px[2] - bg.g
        db == px[3] - bg.b
    IN  dr * dr + dg * dg + db * db

\* Math.round(alpha * 255) in the falloff band of a tolerance T < 0, where
\* alpha = (sqrt(distSquared) - T) / T lies in [-3, -2): minus the least n
\* with n >= 255 * (-alpha) - 1/2, and n = 510 + k for the largest k of
\* 0..255 with k = 0 or (2k + 509) * (-T) < 510 * sqrt(distSquared).
RampBelowZero(distSquared, T) ==
    0 - (510 + LargestByte(LAMBDA k :
                   \/ k = 0
                   \/ ~FracLe(distSquared, (2 * k + 509) * (0 - T),
                              (2 * k + 509) * (0 - T), 510 * 510)))

\* A slip: Math.floor(alpha * 255).
LocalAlphaValueFloor(distSquared, T) ==
    IF distSquared <= T * T THEN 0
    ELSE IF distSquared <= (T * 2) * (T * 2)
    THEN IF T < 0 THEN RampBelowZero(distSquared, T)
         ELSE LargestByte(LAMBDA k :
             \/ k = 0
             \/ FracLe((k + 255) * T, 255 * 255, distSquared, (k + 255) * T))
    ELSE 255

\* A slip: the ramp divided by the outer radius, (dist - T) / (2 * T).
LocalAlphaValueOuterRadius(distSquared, T) ==
    IF distSquared <= T * T THEN 0
    ELSE IF distSquared <= (T * 2) * (T * 2)
    THEN IF T < 0 THEN RampBelowZero(distSquared, T)
         ELSE LargestByte(LAMBDA k :
             \/ k = 0
             \/ FracLe((4 * k + 508) * T, 510 * 510, distSquared, (4 * k + 508) * T))
    ELSE 255

\* A slip: the fade the wrong way round, (2 * T - dist) / T.
LocalAlphaValueInvertedFade(distSquared, T) ==
    IF distSquared <= T * T THEN 0
    ELSE IF distSquared <= (T * 2) * (T * 2)
    THEN IF T < 0 THEN RampBelowZero(distSquared, T)
         ELSE LargestByte(LAMBDA k :
             \/ k = 0
             \/ FracLe(distSquared, (1021 - 2 * k) * T, (1021 - 2 * k) * T, 510 * 510))
    ELSE 255

\* Math.round(alpha * 255).  For a tolerance T >= 0, in the falloff band
\* alpha = (sqrt(distSquared) - T) / T, and k - 1/2 <= 255 * alpha is
\* (2k + 509) * T <= 510 * sqrt(distSquared).
LocalAlphaValue(distSquared, T) ==
    LET toleranceSquared == T * T
        doubleToleranceSquared == (T * 2) * (T * 2)
    IN  IF distSquared <= toleranceSquared THEN 0
        ELSE IF distSquared <= doubleToleranceSquared
        THEN IF T < 0 THEN RampBelowZero(distSquared, T)
             ELSE LargestByte(LAMBDA k :
                 \/ k = 0
                 \/ FracLe((2 * k + 509) * T, 510 * 510,
                           distSquared, (2 * k + 509) * T))
        ELSE 255

\* data[offset + 3] = value: a Buffer keeps the value modulo 256.
StoreByte(value) == value % 256

\* A slip: the colour of a fully transparent pixel is cleared.
LocalPixelOutClearing(px, bg, T) ==
    IF DistSquared(px, bg) <= T * T
    THEN Pixel(0, 0, 0, 0)
    ELSE Pixel(px[1], px[2], px[3], 255)

\* A slip: the new alpha scaled by the alpha the pixel had.
LocalPixelOutScaled(px, bg, T) ==
    Pixel(px[1], px[2], px[3],
          StoreByte(MathRound(LocalAlphaValue(DistSquared(px, bg), T) * px[4], 255)))

\* A slip: a pixel that comes in transparent is left transparent.
LocalPixelOutKeepingTransparent(px, bg, T) ==
    Pixel(px[1], px[2], px[3],
          IF px[4] = 0 THEN 0 ELSE StoreByte(LocalAlphaValue(DistSquared(px, bg), T)))

\* The pixel after the loop body: RGB as read, alpha replaced.
LocalPixelOut(px, bg, T) ==
    Pixel(px[1], px[2], px[3], StoreByte(LocalAlphaValue(DistSquared(px, bg), T)))

\* The images handed to the chroma key: green, and colours at distance
\* 30, 31, sqrt(962), 45 and 60 from green, and a transparent red; the
\* grid, for one-pixel images.
LocalPalette ==
    { Pixel(0, 255, 0, 255), Pixel(0, 255, 30, 255), Pixel(0, 255, 31, 255),
      Pixel(1, 255, 31, 255), Pixel(0, 255, 45, 255), Pixel(0, 255, 60, 255),
      Pixel(255, 0, 0, 0) }

\* Images of two by two and of three by one pixels over two neighbouring
\* colours: their corner sums leave every remainder modulo 4, and the
\* middle pixel of three is no corner.
CornerImages ==
    LET twoTone == { Pixel(0, 255, 30, 255), Pixel(1, 255, 31, 255) }
    IN  {[width |-> 2, height |-> 2, data |-> d] : d \in SeqsOf(twoTone, 4)}
        \cup {[width |-> 3, height |-> 1, data |-> d] : d \in SeqsOf(twoTone, 3)}

\* The background specs of the model: undefined, auto, the two names, a
\* hex colour with its '#', a three-digit hex colour (malformed), and six
\* hex digits with a '#' among them.
BgSpecs ==
    { <<>>, Auto, White, Black,
      <<"#", "0", "0", "f", "F", "0", "0">>,
      <<"#", "0", "f", "0">>,
      <<"0", "0", "#", "f", "F", "0", "0">> }

\* The tolerances of the model: undefined, 0, 1, 128 and 255, and the two
\* nearest numbers outside 0..255.
ToleranceOptions == { <<>>, <<0>>, <<1>>, <<128>>, <<255>>, <<0 - 1>>, <<256>> }

LocalOptions ==
    { [bgColor |-> c, tolerance |-> t] : c \in BgSpecs, t \in ToleranceOptions }

(***************************************************************************)
(* extractAlphaTwoPass                                                     *)
(***************************************************************************)
DimensionMismatch == "Dimension mismatch: Images must be identical size"

\* The two calling processes of the pipeline model.
Calls == {"a", "b"}

\* No call of the pipeline has been made and no command has been run.
PipelineIdle ==
    /\ now = 0
    /\ files = <<>>
    /\ stage = [c \in Calls |-> "idle"]
    /\ fn = [c \in Calls |-> "none"]
    /\ callOpts = [c \in Calls |-> [inputExists |-> FALSE, method |-> "",
                                     type |-> "image"]]
    /\ timestamp = [c \in Calls |-> <<>>]
    /\ did = [c \in Calls |-> {}]
    /\ wrote = [c \in Calls |-> {}]
    /\ decoded = [c \in Calls |-> [white |-> <<>>, black |-> <<>>]]
    /\ failure = [c \in Calls |-> "none"]
    /\ cli = [at |-> "idle", error |-> "none"]
    /\ argv = <<>>

\* null, and a Config object with its apiKey (a sequence of characters).
Null == <<>>
Config(key) == <<key>>

\* CONFIG_PATH does not exist.
NoFile == <<>>

\* process.stdin before any prompt: a terminal or not, in cooked mode, with
\* no data listener.
Stdin(isTTY) == [isTTY |-> isTTY, rawMode |-> FALSE, listener |-> FALSE]

\* promptForApiKey has not been called: no readline interface, no promise,
\* no key pressed.
PromptIdle ==
    keyPrompt = [at |-> "idle", rl |-> "none", input |-> <<>>, rawModeSet |-> FALSE,
                 promise |-> <<"none">>, typed |-> <<>>]

\* There is no config file and no operation on it has been made.
StoreIdle ==
    /\ configFile = NoFile
    /\ ret = [op |-> "none", value |-> <<>>]
    /\ lastSaved = Null
    /\ corrupt = FALSE
    /\ earlier = [saved |-> Null, corrupt |-> FALSE]

ConfigIdle ==
    /\ StoreIdle
    /\ PromptIdle
    /\ stdin = Stdin(TRUE)

\* No call of an engine has been made.
EngineIdle ==
    /\ pc = "idle"
    /\ whiteFile = NoImage
    /\ blackFile = NoImage
    /\ dataWhite = None
    /\ dataBlack = None
    /\ meta = NoImage
    /\ outputBuffer = None
    /\ inputFile = NoImage
    /\ options = NoOptions
    /\ data = None
    /\ info = NoImage
    /\ tolerance = None
    /\ bgColor = NoColor
    /\ prior = NoImage
    /\ i = 0
    /\ outFile = NoImage
    /\ err = "none"

Init ==
    /\ EngineIdle
    /\ PipelineIdle
    /\ ConfigIdle
    /\ apiKey = FALSE

localVars == <<inputFile, options, data, info, tolerance, bgColor, prior>>
twoPassVars == <<whiteFile, blackFile, dataWhite, dataBlack, meta, outputBuffer>>

\* The call, and the two decodes: both files become raw RGBA buffers; meta
\* is the info of the white pass.
TwoPassDecode ==
    /\ pc = "idle"
    /\ \E w \in Images(MattePalette, MatteSwatches),
          b \in Images(MattePalette, MatteSwatches) :
          /\ whiteFile' = w
          /\ blackFile' = b
          /\ dataWhite' = w.data
          /\ dataBlack' = b.data
          /\ meta' = [width |-> w.width, height |-> w.height, data |-> <<>>]
    /\ pc' = "tp_check"
    /\ UNCHANGED <<outputBuffer, i, outFile, err>>
    /\ UNCHANGED localVars
    /\ UNCHANGED <<pipelineVars, configVars>>

\* A slip: the length check made after the loop instead of before it.
TwoPassCheckAfterLoop ==
    /\ pc = "tp_check"
    /\ LET n == IF Len(dataWhite) <= Len(dataBlack)
                THEN Len(dataWhite) ELSE Len(dataBlack)
       IN  /\ outputBuffer' =
                  [p \in 1..Len(dataWhite) |->
                      IF p <= n
                      THEN CHOOSE px \in DifferencePixels(dataWhite[p], dataBlack[p]) : TRUE
                      ELSE Pixel(0, 0, 0, 0)]
           /\ i' = n
    /\ IF ByteLength(dataWhite) # ByteLength(dataBlack)
       THEN err' = DimensionMismatch /\ pc' = "tp_failed"
       ELSE pc' = "tp_loop" /\ UNCHANGED err
    /\ UNCHANGED <<whiteFile, blackFile, dataWhite, dataBlack, meta, outFile>>
    /\ UNCHANGED localVars
    /\ UNCHANGED <<pipelineVars, configVars>>

\* The length check, then the allocation of the output buffer.
TwoPassCheck ==
    /\ pc = "tp_check"
    /\ IF ByteLength(dataWhite) # ByteLength(dataBlack)
       THEN /\ err' = DimensionMismatch
            /\ pc' = "tp_failed"
            /\ UNCHANGED outputBuffer
       ELSE /\ outputBuffer' = BufferAlloc(ByteLength(dataWhite))
            /\ pc' = "tp_loop"
            /\ UNCHANGED err
    /\ UNCHANGED <<whiteFile, blackFile, dataWhite, dataBlack, meta, i, outFile>>
    /\ UNCHANGED localVars
    /\ UNCHANGED <<pipelineVars, configVars>>

\* A slip: no buffer of its own for the output (outputBuffer = dataWhite),
\* so that a turn of the loop writes its pixel over the white pass.
TwoPassPixelOverWhitePass ==
    /\ pc = "tp_loop"
    /\ i < meta.width * meta.height
    /\ \E px \in DifferencePixels(dataWhite[i + 1], dataBlack[i + 1]) :
          /\ outputBuffer' = [outputBuffer EXCEPT ![i + 1] = px]
          /\ dataWhite' = [dataWhite EXCEPT ![i + 1] = px]
    /\ i' = i + 1
    /\ UNCHANGED <<pc, whiteFile, blackFile, dataBlack, meta, outFile, err>>
    /\ UNCHANGED localVars
    /\ UNCHANGED <<pipelineVars, configVars>>

\* One turn of the loop: pixel i of the output.
TwoPassPixel ==
    /\ pc = "tp_loop"
    /\ i < meta.width * meta.height
    /\ \E px \in DifferencePixels(dataWhite[i + 1], dataBlack[i + 1]) :
          outputBuffer' = [outputBuffer EXCEPT ![i + 1] = px]
    /\ i' = i + 1
    /\ UNCHANGED <<pc, whiteFile, blackFile, dataWhite, dataBlack, meta, outFile, err>>
    /\ UNCHANGED localVars
    /\ UNCHANGED <<pipelineVars, configVars>>

\* The loop has ended: the output buffer is encoded to outputPath with the
\* width and height of the white pass.
TwoPassWrite ==
    /\ pc = "tp_loop"
    /\ i >= meta.width * meta.height
    /\ outFile' = [width |-> meta.width, height |-> meta.height, data |-> outputBuffer]
    /\ pc' = "tp_done"
    /\ UNCHANGED <<whiteFile, blackFile, dataWhite, dataBlack, meta, outputBuffer, i, err>>
    /\ UNCHANGED localVars
    /\ UNCHANGED <<pipelineVars, configVars>>

(***************************************************************************)
(* removeBackgroundLocal                                                   *)
(***************************************************************************)
\* The call: the tolerance is read from the options and the input decoded.
LocalDecode ==
    /\ pc = "idle"
    /\ \E img \in Images(LocalPalette, GridColours) \cup CornerImages,
          opts \in LocalOptions :
          /\ inputFile' = img
          /\ options' = opts
          /\ tolerance' = ToleranceOf(opts)
          /\ data' = img.data
          /\ info' = [width |-> img.width, height |-> img.height, data |-> <<>>]
    /\ pc' = "lc_bg"
    /\ UNCHANGED <<bgColor, prior, i, outFile, err>>
    /\ UNCHANGED twoPassVars
    /\ UNCHANGED <<pipelineVars, configVars>>

\* The call made again on the file the call before has written, with the
\* same options: the output is decoded as the input.
LocalAgain ==
    /\ pc = "lc_done"
    /\ prior = NoImage
    /\ prior' = outFile
    /\ inputFile' = outFile
    /\ tolerance' = ToleranceOf(options)
    /\ data' = outFile.data
    /\ info' = [width |-> outFile.width, height |-> outFile.height, data |-> <<>>]
    /\ bgColor' = NoColor
    /\ i' = 0
    /\ outFile' = NoImage
    /\ pc' = "lc_bg"
    /\ UNCHANGED <<options, err>>
    /\ UNCHANGED twoPassVars
    /\ UNCHANGED <<pipelineVars, configVars>>

\* The background colour: sampled from the corners, or parsed.
LocalBackground ==
    /\ pc = "lc_bg"
    /\ IF options.bgColor = <<>> \/ options.bgColor = Auto
       THEN /\ bgColor' = CornerBackground(data, info.width, info.height)
            /\ pc' = "lc_loop"
            /\ UNCHANGED err
       ELSE IF ParseColorThrows(options.bgColor)
       THEN /\ err' = InvalidHexColor
            /\ pc' = "lc_failed"
            /\ UNCHANGED bgColor
       ELSE /\ bgColor' = ParseColor(options.bgColor)
            /\ pc' = "lc_loop"
            /\ UNCHANGED err
    /\ UNCHANGED <<inputFile, options, data, info, tolerance, prior, i, outFile>>
    /\ UNCHANGED twoPassVars
    /\ UNCHANGED <<pipelineVars, configVars>>

\* A slip: a feathered edge, the alpha of pixel i averaged with the alpha
\* just written for the pixel before it.
LocalPixelFeathered ==
    /\ pc = "lc_loop"
    /\ i < info.width * info.height
    /\ LET own == LocalPixelOut(data[i + 1], bgColor, tolerance)
           before == IF i = 0 THEN own ELSE data[i]
       IN  data' = [data EXCEPT ![i + 1] =
                       Pixel(own[1], own[2], own[3], (own[4] + before[4]) \div 2)]
    /\ i' = i + 1
    /\ UNCHANGED <<pc, inputFile, options, info, tolerance, bgColor, prior, outFile,
                   err>>
    /\ UNCHANGED twoPassVars
    /\ UNCHANGED <<pipelineVars, configVars>>

\* One turn of the loop: the alpha byte of pixel i, in place.
LocalPixel ==
    /\ pc = "lc_loop"
    /\ i < info.width * info.height
    /\ data' = [data EXCEPT ![i + 1] = LocalPixelOut(data[i + 1], bgColor, tolerance)]
    /\ i' = i + 1
    /\ UNCHANGED <<pc, inputFile, options, info, tolerance, bgColor, prior, outFile,
                   err>>
    /\ UNCHANGED twoPassVars
    /\ UNCHANGED <<pipelineVars, configVars>>

\* The loop has ended: the buffer is encoded to outputPath.
LocalWrite ==
    /\ pc = "lc_loop"
    /\ i >= info.width * info.height
    /\ outFile' = [width |-> info.width, height |-> info.height, data |-> data]
    /\ pc' = "lc_done"
    /\ UNCHANGED <<inputFile, options, data, info, tolerance, bgColor, prior, i, err>>
    /\ UNCHANGED twoPassVars
    /\ UNCHANGED <<pipelineVars, configVars>>

\* The promise settles (resolved or rejected); the next call starts afresh.
Settle ==
    /\ pc \in {"tp_done", "tp_failed", "lc_done", "lc_failed"}
    /\ pc' = "idle"
    /\ whiteFile' = NoImage
    /\ blackFile' = NoImage
    /\ dataWhite' = None
    /\ dataBlack' = None
    /\ meta' = NoImage
    /\ outputBuffer' = None
    /\ inputFile' = NoImage
    /\ options' = NoOptions
    /\ data' = None
    /\ info' = NoImage
    /\ tolerance' = None
    /\ bgColor' = NoColor
    /\ prior' = NoImage
    /\ i' = 0
    /\ outFile' = NoImage
    /\ err' = "none"
    /\ UNCHANGED <<pipelineVars, configVars>>

Next ==
    \/ TwoPassDecode
    \/ TwoPassCheck
    \/ TwoPassPixel
    \/ TwoPassWrite
    \/ LocalDecode
    \/ LocalBackground
    \/ LocalPixel
    \/ LocalWrite
    \/ LocalAgain
    \/ Settle

Spec == Init /\ [][Next]_vars

(***************************************************************************)
(* The pipeline: generateWithTransparency, extractTransparencyFromImage    *)
(* (alpha.ts) and edit (generate.ts), called by two callers at once on one *)
(* output directory.  An action is a stretch of a call that runs without   *)
(* interruption: from the call, or from the moment an awaited promise      *)
(* settles, to the next await.  The content of a file is the call and the  *)
(* pass it comes from; the pixels are the matter of the engines above.     *)
(***************************************************************************)
\* Date.now() takes the values 0..MaxClock.
MaxClock == 1

Methods == {"pro-pro", "pro-flash", "flash-flash", "local"}

\* options.method: a method, or "" for none given.
MethodOptions == Methods \cup {""}

\* options.method || 'pro-pro'
MethodOf(m) == IF m = "" THEN "pro-pro" ELSE m

\* A slip: pro-flash taken the other way round.
getModelsForMethodFlashFirst(m) ==
    CASE m = "pro-pro" -> [generate |-> "nano-banana-pro", edit |-> "nano-banana-pro"]
      [] m = "pro-flash" -> [generate |-> "nano-banana", edit |-> "nano-banana-pro"]
      [] m = "flash-flash" -> [generate |-> "nano-banana", edit |-> "nano-banana"]
      [] m = "local" -> [generate |-> "nano-banana", edit |-> "nano-banana"]

getModelsForMethod(m) ==
    CASE m = "pro-pro" -> [generate |-> "nano-banana-pro", edit |-> "nano-banana-pro"]
      [] m = "pro-flash" -> [generate |-> "nano-banana-pro", edit |-> "nano-banana"]
      [] m = "flash-flash" -> [generate |-> "nano-banana", edit |-> "nano-banana"]
      [] m = "local" -> [generate |-> "nano-banana", edit |-> "nano-banana"]

InputNotFound == "Input file not found"
ApiKeyNotConfigured == "API key not configured. Run: terminal-banana config set-key"
NoImageReturned == "No image returned from API"

\* The name of a file of the output directory: what stands before the
\* infix, the infix, and the timestamp.
WhitePath(t) == <<"", "_white_", t>>
BlackPath(t) == <<"", "_black_", t>>

\* basename(inputPath, '.png') of the image a caller works on: the two
\* callers work on different images.
InputName(c) == c

\* The file a call writes its result to, no options.filename given.
OutputPath(c) ==
    CASE fn[c] = "generateWithTransparency" ->
             <<"transparent_", callOpts[c].type, timestamp[c]>>
      [] fn[c] = "extractTransparencyFromImage" ->
             <<InputName(c), "_transparent_", timestamp[c]>>
      [] fn[c] = "edit" -> <<InputName(c), "_edited_", timestamp[c]>>
      [] fn[c] = "generate" -> <<callOpts[c].type, "_", timestamp[c]>>

\* writeFileSync / toFile: the file is created, or replaced.
WriteFile(dir, name, content) ==
    [n \in DOMAIN dir \cup {name} |-> IF n = name THEN content ELSE dir[n]]

\* The API calls among the effects of a call.
ApiCalls(c) == {e \in did[c] : e[1] \in {"generateImage", "editImage"}}

\* Parts of a step of call c.
Goes(c, s) == stage' = [stage EXCEPT ![c] = s]

Does(c, effects) == did' = [did EXCEPT ![c] = @ \cup effects]

Writes(c, name, content) ==
    /\ files' = WriteFile(files, name, content)
    /\ wrote' = [wrote EXCEPT ![c] = @ \cup {name}]

Throws(c, message) ==
    /\ stage' = [stage EXCEPT ![c] = "failed"]
    /\ failure' = [failure EXCEPT ![c] = message]

\* generateImage / editImage up to its await: getClient() throws without a
\* key, otherwise the request is made and the call waits at `waiting`.
Requests(c, before, request, waiting) ==
    IF apiKey
    THEN /\ Does(c, before \cup {request})
         /\ Goes(c, waiting)
         /\ UNCHANGED failure
    ELSE /\ Does(c, before)
         /\ Throws(c, ApiKeyNotConfigured)

\* generateWithTransparency, to the await of generateImage.
GenerateCall(c, m, type) ==
    /\ stage[c] = "idle"
    /\ fn' = [fn EXCEPT ![c] = "generateWithTransparency"]
    /\ callOpts' = [callOpts EXCEPT ![c] = [inputExists |-> FALSE, method |-> m,
                                            type |-> type]]
    /\ Requests(c, {<<"ensureDir">>},
                <<"generateImage", getModelsForMethod(MethodOf(m)).generate, <<>>>>,
                "g_generating")
    /\ UNCHANGED <<now, apiKey, files, timestamp, wrote, decoded>>

\* A slip: the white pass not written before the edit to black is
\* requested.
GenerateWhiteNotWritten(c) ==
    /\ stage[c] = "g_generating"
    /\ timestamp' = [timestamp EXCEPT ![c] = now]
    /\ Requests(c, {},
                <<"editImage", getModelsForMethod(MethodOf(callOpts[c].method)).edit>>,
                "g_editing")
    /\ UNCHANGED <<now, apiKey, files, wrote, fn, callOpts, decoded, cli, argv>>
    /\ UNCHANGED <<engineVars, configVars>>

\* The white pass has come: the timestamp is taken, the pass written, and
\* the edit to black requested.
GenerateWhite(c) ==
    /\ stage[c] = "g_generating"
    /\ timestamp' = [timestamp EXCEPT ![c] = now]
    /\ Writes(c, WhitePath(now), <<c, "white">>)
    /\ Requests(c, {},
                <<"editImage", getModelsForMethod(MethodOf(callOpts[c].method)).edit>>,
                "g_editing")
    /\ UNCHANGED <<now, apiKey, fn, callOpts, decoded, cli, argv>>
    /\ UNCHANGED <<engineVars, configVars>>

\* The black pass has come: it is written, and extractAlphaTwoPass called.
GenerateBlack(c) ==
    /\ stage[c] = "g_editing"
    /\ Writes(c, BlackPath(timestamp[c]), <<c, "black">>)
    /\ Goes(c, "x_white")
    /\ UNCHANGED <<now, apiKey, fn, callOpts, timestamp, did, decoded, failure, cli,
                   argv>>
    /\ UNCHANGED <<engineVars, configVars>>

\* A slip: ensureDir(outputDir) moved before the test of the input path.
ExtractCallEnsuringFirst(c, exists, m) ==
    /\ stage[c] = "idle"
    /\ fn' = [fn EXCEPT ![c] = "extractTransparencyFromImage"]
    /\ callOpts' = [callOpts EXCEPT ![c] = [inputExists |-> exists, method |-> m,
                                            type |-> "image"]]
    /\ IF ~exists
       THEN /\ Does(c, {<<"ensureDir">>})
            /\ Throws(c, InputNotFound)
            /\ UNCHANGED timestamp
       ELSE IF MethodOf(m) = "local"
       THEN /\ Does(c, {<<"ensureDir">>})
            /\ timestamp' = [timestamp EXCEPT ![c] = now]
            /\ Goes(c, "l_decode")
            /\ UNCHANGED failure
       ELSE /\ timestamp' = [timestamp EXCEPT ![c] = now]
            /\ Requests(c, {<<"ensureDir">>, <<"readFileSync">>},
                        <<"editImage", getModelsForMethod(MethodOf(m)).edit>>,
                        "e_whitening")
    /\ UNCHANGED <<now, apiKey, files, wrote, decoded>>

\* extractTransparencyFromImage, to its first await: of editImage, or of
\* the decode in removeBackgroundLocal.
ExtractCall(c, exists, m) ==
    /\ stage[c] = "idle"
    /\ fn' = [fn EXCEPT ![c] = "extractTransparencyFromImage"]
    /\ callOpts' = [callOpts EXCEPT ![c] = [inputExists |-> exists, method |-> m,
                                            type |-> "image"]]
    /\ IF ~exists
       THEN /\ Throws(c, InputNotFound)
            /\ UNCHANGED <<did, timestamp>>
       ELSE IF MethodOf(m) = "local"
       THEN /\ Does(c, {<<"ensureDir">>})
            /\ timestamp' = [timestamp EXCEPT ![c] = now]
            /\ Goes(c, "l_decode")
            /\ UNCHANGED failure
       ELSE /\ timestamp' = [timestamp EXCEPT ![c] = now]
            /\ Requests(c, {<<"ensureDir">>, <<"readFileSync">>},
                        <<"editImage", getModelsForMethod(MethodOf(m)).edit>>,
                        "e_whitening")
    /\ UNCHANGED <<now, apiKey, files, wrote, decoded>>

\* The white pass has come: it is written, and the edit of the input to
\* black requested.
ExtractWhite(c) ==
    /\ stage[c] = "e_whitening"
    /\ Writes(c, WhitePath(timestamp[c]), <<c, "white">>)
    /\ Requests(c, {},
                <<"editImage", getModelsForMethod(MethodOf(callOpts[c].method)).edit>>,
                "e_blackening")
    /\ UNCHANGED <<now, apiKey, fn, callOpts, timestamp, decoded, cli, argv>>
    /\ UNCHANGED <<engineVars, configVars>>

\* The black pass has come: it is written, and extractAlphaTwoPass called.
ExtractBlack(c) ==
    /\ stage[c] = "e_blackening"
    /\ Writes(c, BlackPath(timestamp[c]), <<c, "black">>)
    /\ Goes(c, "x_white")
    /\ UNCHANGED <<now, apiKey, fn, callOpts, timestamp, did, decoded, failure, cli,
                   argv>>
    /\ UNCHANGED <<engineVars, configVars>>

\* extractAlphaTwoPass: the white pass is decoded from its file.
TwoPassReadWhite(c) ==
    /\ stage[c] = "x_white"
    /\ decoded' = [decoded EXCEPT ![c].white = files[WhitePath(timestamp[c])]]
    /\ Does(c, {<<"decode", "_white_">>})
    /\ Goes(c, "x_black")
    /\ UNCHANGED <<now, apiKey, files, fn, callOpts, timestamp, wrote, failure, cli,
                   argv>>
    /\ UNCHANGED <<engineVars, configVars>>

\* extractAlphaTwoPass: the black pass is decoded from its file.
TwoPassReadBlack(c) ==
    /\ stage[c] = "x_black"
    /\ decoded' = [decoded EXCEPT ![c].black = files[BlackPath(timestamp[c])]]
    /\ Does(c, {<<"decode", "_black_">>})
    /\ Goes(c, "x_write")
    /\ UNCHANGED <<now, apiKey, files, fn, callOpts, timestamp, wrote, failure, cli,
                   argv>>
    /\ UNCHANGED <<engineVars, configVars>>

\* extractAlphaTwoPass: the result of the two decoded passes is written,
\* and the call returns.
TwoPassWriteOutput(c) ==
    /\ stage[c] = "x_write"
    /\ Writes(c, OutputPath(c), <<c, "output">>)
    /\ Goes(c, "returned")
    /\ UNCHANGED <<now, apiKey, fn, callOpts, timestamp, did, decoded, failure, cli,
                   argv>>
    /\ UNCHANGED <<engineVars, configVars>>

\* removeBackgroundLocal: the input is decoded.
ExtractLocalDecode(c) ==
    /\ stage[c] = "l_decode"
    /\ Does(c, {<<"decode", "input">>})
    /\ Goes(c, "l_write")
    /\ UNCHANGED <<now, apiKey, files, fn, callOpts, timestamp, wrote, decoded,
                   failure, cli, argv>>
    /\ UNCHANGED <<engineVars, configVars>>

\* removeBackgroundLocal: the output is written, and the call returns.
ExtractLocalWrite(c) ==
    /\ stage[c] = "l_write"
    /\ Writes(c, OutputPath(c), <<c, "output">>)
    /\ Goes(c, "returned")
    /\ UNCHANGED <<now, apiKey, fn, callOpts, timestamp, did, decoded, failure, cli,
                   argv>>
    /\ UNCHANGED <<engineVars, configVars>>

\* edit, to the await of editImage.
EditCall(c, exists) ==
    /\ stage[c] = "idle"
    /\ fn' = [fn EXCEPT ![c] = "edit"]
    /\ callOpts' = [callOpts EXCEPT ![c] = [inputExists |-> exists, method |-> "",
                                            type |-> "image"]]
    /\ IF ~exists
       THEN /\ Throws(c, InputNotFound)
            /\ UNCHANGED did
       ELSE Requests(c, {<<"ensureDir">>, <<"readFileSync">>},
                     <<"editImage", "nano-banana-pro">>, "d_editing")
    /\ UNCHANGED <<now, apiKey, files, timestamp, wrote, decoded>>

\* The edited image has come: it is written under a name with the time of
\* this moment, and the call returns.
EditWrite(c) ==
    /\ stage[c] = "d_editing"
    /\ timestamp' = [timestamp EXCEPT ![c] = now]
    /\ files' = WriteFile(files, <<InputName(c), "_edited_", now>>, <<c, "edited">>)
    /\ wrote' = [wrote EXCEPT ![c] = @ \cup {<<InputName(c), "_edited_", now>>}]
    /\ Goes(c, "returned")
    /\ UNCHANGED <<now, apiKey, fn, callOpts, did, decoded, failure, cli, argv>>
    /\ UNCHANGED <<engineVars, configVars>>

\* generate, to the await of generateImage: the reference images go into
\* the request.
PlainGenerateCall(c, type, referenceImages) ==
    /\ stage[c] = "idle"
    /\ fn' = [fn EXCEPT ![c] = "generate"]
    /\ callOpts' = [callOpts EXCEPT ![c] = [inputExists |-> FALSE, method |-> "",
                                            type |-> type]]
    /\ Requests(c, {<<"ensureDir">>},
                <<"generateImage", "nano-banana-pro", referenceImages>>, "p_generating")
    /\ UNCHANGED <<now, apiKey, files, timestamp, wrote, decoded>>

\* The image has come: it is written under generateFilename(type), which
\* takes the time of this moment, and the call returns.
PlainGenerateWrite(c) ==
    /\ stage[c] = "p_generating"
    /\ timestamp' = [timestamp EXCEPT ![c] = now]
    /\ files' = WriteFile(files, <<callOpts[c].type, "_", now>>, <<c, "generated">>)
    /\ wrote' = [wrote EXCEPT ![c] = @ \cup {<<callOpts[c].type, "_", now>>}]
    /\ Goes(c, "returned")
    /\ UNCHANGED <<now, apiKey, fn, callOpts, did, decoded, failure, cli, argv>>
    /\ UNCHANGED <<engineVars, configVars>>

\* The awaited generateImage / editImage rejects (no image in the answer, or
\* an error of the API): the call throws where it waits, which is noted.
RequestFails(c) ==
    /\ stage[c] \in {"g_generating", "g_editing", "e_whitening", "e_blackening",
                    "d_editing", "p_generating"}
    /\ Does(c, {<<"rejected", stage[c]>>})
    /\ Throws(c, NoImageReturned)
    /\ UNCHANGED <<now, apiKey, files, fn, callOpts, timestamp, wrote, decoded, cli,
                   argv>>
    /\ UNCHANGED <<engineVars, configVars>>

\* A millisecond passes.
Tick ==
    /\ now < MaxClock
    /\ now' = now + 1
    /\ UNCHANGED <<apiKey, files, callVars, cli, argv>>
    /\ UNCHANGED <<engineVars, configVars>>

\* A caller calls one of the three functions.
CallGenerateWithTransparency(c) ==
    /\ \E m \in MethodOptions : GenerateCall(c, m, "image")
    /\ UNCHANGED <<cli, argv>>
    /\ UNCHANGED <<engineVars, configVars>>

CallExtractTransparencyFromImage(c) ==
    /\ \E exists \in BOOLEAN, m \in MethodOptions : ExtractCall(c, exists, m)
    /\ UNCHANGED <<cli, argv>>
    /\ UNCHANGED <<engineVars, configVars>>

CallEdit(c) ==
    /\ \E exists \in BOOLEAN : EditCall(c, exists)
    /\ UNCHANGED <<cli, argv>>
    /\ UNCHANGED <<engineVars, configVars>>

\* What a call does once it has been made.
Proceeds(c) ==
    \/ GenerateWhite(c)
    \/ GenerateBlack(c)
    \/ ExtractWhite(c)
    \/ ExtractBlack(c)
    \/ TwoPassReadWhite(c)
    \/ TwoPassReadBlack(c)
    \/ TwoPassWriteOutput(c)
    \/ ExtractLocalDecode(c)
    \/ ExtractLocalWrite(c)
    \/ EditWrite(c)
    \/ RequestFails(c)

PipelineInit ==
    /\ EngineIdle
    /\ PipelineIdle
    /\ ConfigIdle
    /\ apiKey \in BOOLEAN

PipelineNext ==
    \/ Tick
    \/ \E c \in Calls :
          \/ CallGenerateWithTransparency(c)
          \/ CallExtractTransparencyFromImage(c)
          \/ CallEdit(c)
          \/ Proceeds(c)

PipelineSpec == PipelineInit /\ [][PipelineNext]_vars

(***************************************************************************)
(* The command line (cli.ts): the commands transparent, transparent-icon,  *)
(* transparent-logo, transparent-ui, edit-transparent and edit, run by one *)
(* process, which makes its call of the pipeline as caller CliCall.  Of    *)
(* the flags, -o, -i, -r, --method and --cost are modelled; a word is a    *)
(* string, and a missing value is "".                                      *)
(***************************************************************************)
CliCall == "a"

TransparentCommands ==
    {"transparent", "transparent-icon", "transparent-logo", "transparent-ui"}

GenerateCommands == {"generate", "icon", "logo", "ui"}

Commands == GenerateCommands \cup TransparentCommands \cup {"edit-transparent", "edit"}

\* The type each command hands to handleGenerate or handleTransparent.
TypeOf(command) ==
    CASE command = "transparent" -> "image"
      [] command = "transparent-icon" -> "icon"
      [] command = "transparent-logo" -> "logo"
      [] command = "transparent-ui" -> "ui"
      [] command = "generate" -> "image"
      [] command = "icon" -> "icon"
      [] command = "logo" -> "logo"
      [] command = "ui" -> "ui"

\* existsSync(path): the files there are, beside the output directory.
FileExists(path) == path \in {"in.png", "ref.png"}

\* arg.startsWith('-'), for the words of the model.
StartsWithDash(arg) == arg \in {"-o", "-i", "-r", "--method", "--cost"}

MAX_REFERENCE_IMAGES == 14

InvalidMethod == "Invalid method"
UnknownFlags == "Unknown flag(s)"
TooManyReferenceImages == "Too many reference images"
OutputDirRequired == "Output directory required. Use -o <dir>"
InputImageRequired == "Input image required. Use -i <image>"
PromptRequired == "Prompt required"
ReferenceImageNotFound == "Reference image not found"
LocalOnlyForEditTransparent ==
    "--method local is only valid for edit-transparent (background removal from existing images). Use pro-pro, pro-flash, or flash-flash for transparent generation."

\* The result of parseArgs before any argument is read; error is the
\* message printError has ended the process with, if it has.
NoArgs ==
    [error |-> "none", outputDir |-> "", inputImage |-> "", method |-> "",
     showCost |-> FALSE, referenceImages |-> <<>>, promptParts |-> <<>>,
     unknownFlags |-> <<>>]

RECURSIVE ParseFrom(_, _, _)
\* The loop of parseArgs from args[n] on (n counted from 1), and what
\* follows the loop.
ParseFrom(args, n, result) ==
    IF n > Len(args)
    THEN IF result.unknownFlags # <<>>
         THEN [result EXCEPT !.error = UnknownFlags]
         ELSE IF Len(result.referenceImages) > MAX_REFERENCE_IMAGES
         THEN [result EXCEPT !.error = TooManyReferenceImages]
         ELSE result
    ELSE LET arg == args[n]
             hasValue == n + 1 <= Len(args) /\ args[n + 1] # ""
         IN  IF arg = "-o" /\ hasValue
             THEN ParseFrom(args, n + 2, [result EXCEPT !.outputDir = args[n + 1]])
             ELSE IF arg = "-i" /\ hasValue
             THEN ParseFrom(args, n + 2, [result EXCEPT !.inputImage = args[n + 1]])
             ELSE IF arg = "-r" /\ hasValue
             THEN ParseFrom(args, n + 2,
                            [result EXCEPT !.referenceImages = Append(@, args[n + 1])])
             ELSE IF arg = "--method" /\ hasValue
             THEN IF args[n + 1] \in Methods
                  THEN ParseFrom(args, n + 2, [result EXCEPT !.method = args[n + 1]])
                  ELSE [result EXCEPT !.error = InvalidMethod]
             ELSE IF arg = "--cost"
             THEN ParseFrom(args, n + 1, [result EXCEPT !.showCost = TRUE])
             ELSE IF StartsWithDash(arg)
             THEN ParseFrom(args, n + 1, [result EXCEPT !.unknownFlags = Append(@, arg)])
             ELSE ParseFrom(args, n + 1, [result EXCEPT !.promptParts = Append(@, arg)])

parseArgs(args) == ParseFrom(args, 1, NoArgs)

\* What the current command was given: parseArgs(restArgs).
Parsed == parseArgs(Tail(argv))

\* The command lines of the model.
Argvs ==
    { <<command>> \o o \o inp \o prompt \o m \o cost \o r :
        command \in Commands,
        o \in {<<>>, <<"-o", "out">>},
        inp \in {<<>>, <<"-i", "in.png">>, <<"-i", "missing.png">>},
        prompt \in {<<>>, <<"a", "cat">>},
        m \in {<<>>, <<"--method">>}
              \cup {<<"--method", x>> : x \in Methods \cup {"fast"}},
        cost \in {<<>>, <<"--cost">>},
        r \in {<<>>, <<"-r", "ref.png">>, <<"-r", "missing.png">>}
              \cup { [n \in 1..2 * k |-> IF n % 2 = 1 THEN "-r" ELSE "ref.png"] :
                       k \in {MAX_REFERENCE_IMAGES, MAX_REFERENCE_IMAGES + 1} } }

\* printError: the message is printed and the process exits with status 1.
printError(message) == cli' = [at |-> "exited", error |-> message]

CliAt(at) == cli' = [at |-> at, error |-> "none"]

\* The models of the estimate each handler prints are written as a record
\* [generate, edit]: "" where the command has no such operation.

TransparentEstimate(method) ==
    [generate |-> IF method = "flash-flash" THEN "nano-banana" ELSE "nano-banana-pro",
     edit |-> IF method = "pro-pro" THEN "nano-banana-pro" ELSE "nano-banana"]

EditTransparentEstimate(method) ==
    [generate |-> "",
     edit |-> IF method = "pro-pro" THEN "nano-banana-pro" ELSE "nano-banana"]

\* confirmCost is awaited: the estimate is printed and the question asked.
ConfirmsCost(estimate) ==
    /\ CliAt("confirming")
    /\ did' = [did EXCEPT ![CliCall] =
                  @ \cup {<<"confirmCost">>,
                          <<"estimate", estimate.generate, estimate.edit>>}]

\* main and handleGenerate, to the await of confirmCost or to the end of
\* the tests.
RunGenerate ==
    /\ cli.at = "idle"
    /\ \E args \in Argvs :
          /\ args[1] \in GenerateCommands
          /\ argv' = args
          /\ LET parsed == parseArgs(Tail(args))
             IN  IF parsed.error # "none"
                 THEN printError(parsed.error) /\ UNCHANGED did
                 ELSE IF parsed.outputDir = ""
                 THEN printError(OutputDirRequired) /\ UNCHANGED did
                 ELSE IF parsed.promptParts = <<>>
                 THEN printError(PromptRequired) /\ UNCHANGED did
                 ELSE IF parsed.showCost
                 THEN ConfirmsCost([generate |-> "nano-banana-pro", edit |-> ""])
                 ELSE CliAt("proceeding") /\ UNCHANGED did
    /\ UNCHANGED <<now, apiKey, files, stage, fn, callOpts, timestamp, wrote, decoded,
                   failure>>
    /\ UNCHANGED <<engineVars, configVars>>

\* A slip: the test for --method local made after the cost confirmation.
RunTransparentConfirmingFirst ==
    /\ cli.at = "idle"
    /\ \E args \in Argvs :
          /\ args[1] \in TransparentCommands
          /\ argv' = args
          /\ LET parsed == parseArgs(Tail(args))
             IN  IF parsed.error # "none"
                 THEN printError(parsed.error) /\ UNCHANGED did
                 ELSE IF parsed.outputDir = ""
                 THEN printError(OutputDirRequired) /\ UNCHANGED did
                 ELSE IF parsed.promptParts = <<>>
                 THEN printError(PromptRequired) /\ UNCHANGED did
                 ELSE IF parsed.showCost
                 THEN ConfirmsCost(TransparentEstimate(MethodOf(parsed.method)))
                 ELSE IF MethodOf(parsed.method) = "local"
                 THEN printError(LocalOnlyForEditTransparent) /\ UNCHANGED did
                 ELSE CliAt("proceeding") /\ UNCHANGED did
    /\ UNCHANGED <<now, apiKey, files, stage, fn, callOpts, timestamp, wrote, decoded,
                   failure>>
    /\ UNCHANGED <<engineVars, configVars>>

\* main and handleTransparent, to the await of confirmCost or to the end
\* of the tests.
RunTransparent ==
    /\ cli.at = "idle"
    /\ \E args \in Argvs :
          /\ args[1] \in TransparentCommands
          /\ argv' = args
          /\ LET parsed == parseArgs(Tail(args))
             IN  IF parsed.error # "none"
                 THEN printError(parsed.error) /\ UNCHANGED did
                 ELSE IF parsed.outputDir = ""
                 THEN printError(OutputDirRequired) /\ UNCHANGED did
                 ELSE IF parsed.promptParts = <<>>
                 THEN printError(PromptRequired) /\ UNCHANGED did
                 ELSE IF MethodOf(parsed.method) = "local"
                 THEN printError(LocalOnlyForEditTransparent) /\ UNCHANGED did
                 ELSE IF parsed.showCost
                 THEN ConfirmsCost(TransparentEstimate(MethodOf(parsed.method)))
                 ELSE CliAt("proceeding") /\ UNCHANGED did
    /\ UNCHANGED <<now, apiKey, files, stage, fn, callOpts, timestamp, wrote, decoded,
                   failure>>
    /\ UNCHANGED <<engineVars, configVars>>

\* A slip: the cost confirmation asked for whatever the method.
RunEditTransparentConfirmingLocal ==
    /\ cli.at = "idle"
    /\ \E args \in Argvs :
          /\ args[1] = "edit-transparent"
          /\ argv' = args
          /\ LET parsed == parseArgs(Tail(args))
             IN  IF parsed.error # "none"
                 THEN printError(parsed.error) /\ UNCHANGED did
                 ELSE IF parsed.outputDir = ""
                 THEN printError(OutputDirRequired) /\ UNCHANGED did
                 ELSE IF parsed.inputImage = ""
                 THEN printError(InputImageRequired) /\ UNCHANGED did
                 ELSE IF parsed.showCost
                 THEN ConfirmsCost(EditTransparentEstimate(MethodOf(parsed.method)))
                 ELSE CliAt("proceeding") /\ UNCHANGED did
    /\ UNCHANGED <<now, apiKey, files, stage, fn, callOpts, timestamp, wrote, decoded,
                   failure>>
    /\ UNCHANGED <<engineVars, configVars>>

\* main and handleEditTransparent, to the await of confirmCost or to the
\* end of the tests.
RunEditTransparent ==
    /\ cli.at = "idle"
    /\ \E args \in Argvs :
          /\ args[1] = "edit-transparent"
          /\ argv' = args
          /\ LET parsed == parseArgs(Tail(args))
             IN  IF parsed.error # "none"
                 THEN printError(parsed.error) /\ UNCHANGED did
                 ELSE IF parsed.outputDir = ""
                 THEN printError(OutputDirRequired) /\ UNCHANGED did
                 ELSE IF parsed.inputImage = ""
                 THEN printError(InputImageRequired) /\ UNCHANGED did
                 ELSE IF parsed.showCost /\ MethodOf(parsed.method) # "local"
                 THEN ConfirmsCost(EditTransparentEstimate(MethodOf(parsed.method)))
                 ELSE CliAt("proceeding") /\ UNCHANGED did
    /\ UNCHANGED <<now, apiKey, files, stage, fn, callOpts, timestamp, wrote, decoded,
                   failure>>
    /\ UNCHANGED <<engineVars, configVars>>

\* main and handleEdit, to the await of confirmCost or to the end of the
\* tests.
RunEdit ==
    /\ cli.at = "idle"
    /\ \E args \in Argvs :
          /\ args[1] = "edit"
          /\ argv' = args
          /\ LET parsed == parseArgs(Tail(args))
             IN  IF parsed.error # "none"
                 THEN printError(parsed.error) /\ UNCHANGED did
                 ELSE IF parsed.outputDir = ""
                 THEN printError(OutputDirRequired) /\ UNCHANGED did
                 ELSE IF parsed.inputImage = ""
                 THEN printError(InputImageRequired) /\ UNCHANGED did
                 ELSE IF parsed.promptParts = <<>>
                 THEN printError(PromptRequired) /\ UNCHANGED did
                 ELSE IF parsed.showCost
                 THEN ConfirmsCost([generate |-> "", edit |-> "nano-banana-pro"])
                 ELSE CliAt("proceeding") /\ UNCHANGED did
    /\ UNCHANGED <<now, apiKey, files, stage, fn, callOpts, timestamp, wrote, decoded,
                   failure>>
    /\ UNCHANGED <<engineVars, configVars>>

\* What is typed at the question of confirmCost.
Answers == {"y", "Y", "yes", "YES", "n", "no", "ye", ""}

\* answer.toLowerCase(), for the answers of the model.
toLowerCase(answer) ==
    CASE answer = "Y" -> "y"
      [] answer = "YES" -> "yes"
      [] OTHER -> answer

\* A slip: an answer taken for a yes when it begins one.
AnswerByItsBeginning ==
    /\ cli.at = "confirming"
    /\ \E answer \in Answers :
          /\ did' = [did EXCEPT ![CliCall] = @ \cup {<<"answer", answer>>}]
          /\ IF toLowerCase(answer) \in {"y", "ye", "yes"}
             THEN CliAt("proceeding")
             ELSE CliAt("cancelled")
    /\ UNCHANGED <<now, apiKey, files, stage, fn, callOpts, timestamp, wrote, decoded,
                   failure, argv>>
    /\ UNCHANGED <<engineVars, configVars>>

\* The question of confirmCost is answered: anything but y or yes cancels.
Answer ==
    /\ cli.at = "confirming"
    /\ \E answer \in Answers :
          /\ did' = [did EXCEPT ![CliCall] = @ \cup {<<"answer", answer>>}]
          /\ IF toLowerCase(answer) \in {"y", "yes"}
             THEN CliAt("proceeding")
             ELSE CliAt("cancelled")
    /\ UNCHANGED <<now, apiKey, files, stage, fn, callOpts, timestamp, wrote, decoded,
                   failure, argv>>
    /\ UNCHANGED <<engineVars, configVars>>

\* handleGenerate, handleTransparent: the reference images are loaded.
LoadReferenceImages ==
    /\ cli.at = "proceeding"
    /\ argv[1] \in GenerateCommands \cup TransparentCommands
    /\ LET refs == Parsed.referenceImages
       IN  IF refs = <<>>
           THEN CliAt("calling") /\ UNCHANGED did
           ELSE /\ did' = [did EXCEPT ![CliCall] = @ \cup {<<"loadReferenceImages">>}]
                /\ IF \E n \in 1..Len(refs) : ~FileExists(refs[n])
                   THEN printError(ReferenceImageNotFound)
                   ELSE CliAt("calling")
    /\ UNCHANGED <<now, apiKey, files, stage, fn, callOpts, timestamp, wrote, decoded,
                   failure, argv>>
    /\ UNCHANGED <<engineVars, configVars>>

\* handleGenerate calls generate, with the reference images loaded.
GenerateCalls ==
    /\ cli.at = "calling"
    /\ argv[1] \in GenerateCommands
    /\ PlainGenerateCall(CliCall, TypeOf(argv[1]), Parsed.referenceImages)
    /\ CliAt("awaiting")
    /\ UNCHANGED argv
    /\ UNCHANGED <<engineVars, configVars>>

\* A slip: the reference images handed on to the generation request.
TransparentCallsWithReferences ==
    /\ cli.at = "calling"
    /\ argv[1] \in TransparentCommands
    /\ stage[CliCall] = "idle"
    /\ fn' = [fn EXCEPT ![CliCall] = "generateWithTransparency"]
    /\ callOpts' = [callOpts EXCEPT ![CliCall] =
                        [inputExists |-> FALSE, method |-> MethodOf(Parsed.method),
                         type |-> TypeOf(argv[1])]]
    /\ Requests(CliCall, {<<"ensureDir">>},
                <<"generateImage", getModelsForMethod(MethodOf(Parsed.method)).generate,
                  Parsed.referenceImages>>,
                "g_generating")
    /\ CliAt("awaiting")
    /\ UNCHANGED <<now, apiKey, files, timestamp, wrote, decoded, argv>>
    /\ UNCHANGED <<engineVars, configVars>>

\* handleTransparent calls generateWithTransparency: the options it hands
\* over hold referenceImages, which generateWithTransparency does not read.
TransparentCalls ==
    /\ cli.at = "calling"
    /\ argv[1] \in TransparentCommands
    /\ GenerateCall(CliCall, MethodOf(Parsed.method), TypeOf(argv[1]))
    /\ CliAt("awaiting")
    /\ UNCHANGED argv
    /\ UNCHANGED <<engineVars, configVars>>

\* handleEditTransparent calls extractTransparencyFromImage.
EditTransparentCalls ==
    /\ cli.at = "proceeding"
    /\ argv[1] = "edit-transparent"
    /\ ExtractCall(CliCall, FileExists(Parsed.inputImage), MethodOf(Parsed.method))
    /\ CliAt("awaiting")
    /\ UNCHANGED argv
    /\ UNCHANGED <<engineVars, configVars>>

\* handleEdit calls edit.
EditCalls ==
    /\ cli.at = "proceeding"
    /\ argv[1] = "edit"
    /\ EditCall(CliCall, FileExists(Parsed.inputImage))
    /\ CliAt("awaiting")
    /\ UNCHANGED argv
    /\ UNCHANGED <<engineVars, configVars>>

\* The call has settled: the result is printed, or the error caught in
\* main is.
Finish ==
    /\ cli.at = "awaiting"
    /\ stage[CliCall] \in {"returned", "failed"}
    /\ IF stage[CliCall] = "failed"
       THEN printError(failure[CliCall])
       ELSE CliAt("done")
    /\ UNCHANGED <<now, apiKey, files, callVars, argv>>
    /\ UNCHANGED <<engineVars, configVars>>

CliNext ==
    \/ RunGenerate
    \/ RunTransparent
    \/ RunEditTransparent
    \/ RunEdit
    \/ Answer
    \/ LoadReferenceImages
    \/ GenerateCalls
    \/ TransparentCalls
    \/ EditTransparentCalls
    \/ EditCalls
    \/ Proceeds(CliCall)
    \/ PlainGenerateWrite(CliCall)
    \/ Finish

CliSpec == PipelineInit /\ [][CliNext]_vars

(***************************************************************************)
(* The config store (config.ts): loadConfig, saveConfig, clearConfig and   *)
(* getApiKey on the one file CONFIG_PATH.  A string is a sequence of       *)
(* characters; the text of the file is the sequence of the tokens of the   *)
(* JSON object, the characters of the string literal one by one.           *)
(***************************************************************************)
\* The keys of the model are at most this long, some chosen longer ones
\* apart.
MaxKeyLen == 2

Keys ==
    UNION { [1..n -> {"k", "\"", "\\", " "}] : n \in 0..MaxKeyLen }
    \cup
    { <<"*", "*", "*", "*">>,
      <<"A", "I", "z", "a", "S", "y", "B", "x">>,
      <<"A", "I", "z", "a", "S", "y", "B", "x", "9">>,
      <<"A", "I", "z", "a", ".", ".", ".", "x", "9", "Q", "w">>,
      <<"A", "I", "z", "a", "S", "y", "B", "x", "9", "Q", "w", "7">> }

RECURSIVE Escape(_)
\* The characters of a JSON string literal: a quote or a backslash is
\* written after a backslash.
Escape(str) ==
    IF str = <<>>
    THEN <<>>
    ELSE IF Head(str) \in {"\"", "\\"}
    THEN <<"\\", Head(str)>> \o Escape(Tail(str))
    ELSE <<Head(str)>> \o Escape(Tail(str))

\* A slip: the characters written as they are.
JSONStringifyRaw(config) ==
    <<"{", "\"apiKey\"", ":", "\"">> \o config[1] \o <<"\"", "}">>

\* JSON.stringify(config, null, 2)
JSONStringify(config) ==
    <<"{", "\"apiKey\"", ":", "\"">> \o Escape(config[1]) \o <<"\"", "}">>

RECURSIVE Unescape(_)
\* The string a literal's characters stand for, as Config; Null where they
\* are no literal.
Unescape(body) ==
    IF body = <<>>
    THEN Config(<<>>)
    ELSE IF Head(body) = "\""
    THEN Null
    ELSE IF Head(body) = "\\"
    THEN IF Len(body) >= 2 /\ body[2] \in {"\"", "\\"}
         THEN LET rest == Unescape(SubSeq(body, 3, Len(body)))
              IN  IF rest = Null THEN Null ELSE Config(<<body[2]>> \o rest[1])
         ELSE Null
    ELSE LET rest == Unescape(Tail(body))
         IN  IF rest = Null THEN Null ELSE Config(<<Head(body)>> \o rest[1])

\* JSON.parse(data) inside the try of loadConfig: the object, or Null where
\* the parse throws and the catch returns null.
JSONParse(text) ==
    IF /\ Len(text) >= 6
       /\ SubSeq(text, 1, 4) = <<"{", "\"apiKey\"", ":", "\"">>
       /\ SubSeq(text, Len(text) - 1, Len(text)) = <<"\"", "}">>
    THEN Unescape(SubSeq(text, 5, Len(text) - 2))
    ELSE Null

loadConfig == IF configFile = NoFile THEN Null ELSE JSONParse(configFile[1])

getApiKey ==
    IF loadConfig = Null \/ loadConfig[1] = <<>>
    THEN <<"throw", ApiKeyNotConfigured>>
    ELSE <<"return", loadConfig[1]>>

Returns(op, value) ==
    /\ ret' = [op |-> op, value |-> value]
    /\ earlier' = [saved |-> lastSaved, corrupt |-> corrupt]

SaveConfig(config) ==
    /\ configFile' = <<JSONStringify(config)>>
    /\ lastSaved' = config
    /\ corrupt' = FALSE
    /\ Returns("saveConfig", <<>>)
    /\ UNCHANGED <<engineVars, pipelineVars, promptVars>>

\* A slip: true returned whether there was a file or not.
ClearConfigEverTrue ==
    /\ configFile' = NoFile
    /\ lastSaved' = Null
    /\ corrupt' = FALSE
    /\ Returns("clearConfig", <<TRUE>>)
    /\ UNCHANGED <<engineVars, pipelineVars, promptVars>>

ClearConfig ==
    /\ configFile' = NoFile
    /\ lastSaved' = Null
    /\ corrupt' = FALSE
    /\ Returns("clearConfig", <<configFile # NoFile>>)
    /\ UNCHANGED <<engineVars, pipelineVars, promptVars>>

LoadConfig ==
    /\ Returns("loadConfig", loadConfig)
    /\ UNCHANGED <<configFile, lastSaved, corrupt>>
    /\ UNCHANGED <<engineVars, pipelineVars, promptVars>>

GetApiKey ==
    /\ Returns("getApiKey", getApiKey)
    /\ UNCHANGED <<configFile, lastSaved, corrupt>>
    /\ UNCHANGED <<engineVars, pipelineVars, promptVars>>

\* The file is overwritten from outside with a text that is no JSON.
Corrupt ==
    /\ \E text \in { <<>>, <<"{">>, <<"{", "\"apiKey\"", ":", "\"", "k">> } :
          configFile' = <<text>>
    /\ corrupt' = TRUE
    /\ ret' = [op |-> "none", value |-> <<>>]
    /\ UNCHANGED <<lastSaved, earlier>>
    /\ UNCHANGED <<engineVars, pipelineVars, promptVars>>

maskApiKey(key) ==
    IF Len(key) <= 8
    THEN <<"*", "*", "*", "*">>
    ELSE SubSeq(key, 1, 4) \o <<".", ".", ".">> \o SubSeq(key, Len(key) - 3, Len(key))

\* handleConfig('show'): what is printed.
ConfigShow ==
    /\ Returns("show", IF loadConfig = Null
                       THEN <<"configured: false">>
                       ELSE <<"configured: true", maskApiKey(loadConfig[1])>>)
    /\ UNCHANGED <<configFile, lastSaved, corrupt>>
    /\ UNCHANGED <<engineVars, pipelineVars, promptVars>>

ConfigNext ==
    \/ \E key \in Keys : SaveConfig(Config(key))
    \/ ClearConfig
    \/ LoadConfig
    \/ GetApiKey
    \/ ConfigShow
    \/ Corrupt

ConfigSpec == Init /\ [][ConfigNext]_vars

(***************************************************************************)
(* The prompt (config.ts, promptForApiKey) and config set-key (cli.ts,     *)
(* handleConfig).  A key event is one character, given by its code; the    *)
(* events so far are kept in keyPrompt.typed.                                 *)
(***************************************************************************)
\* At most this many keys are pressed.
MaxKeys == 3

LF == 10
CR == 13
ETX == 3
DEL == 127
BS == 8
Space == 32

\* The keys of the model: the six above, Escape, k and the double quote.
KeyCodes == {LF, CR, ETX, DEL, BS, 27, Space, 107, 34}

NotATTY ==
    "Cannot prompt for API key: stdin is not a TTY. Please run interactively or set API key via config file."
CannotSetRawMode == "Cannot set raw mode on stdin"
KeyCannotBeEmpty == "API key cannot be empty"

\* cleanup(), onData initialised: raw mode is switched off if it was set,
\* the listener removed and the readline interface closed.
Cleanup ==
    /\ stdin' = [stdin EXCEPT
                    !.rawMode = IF keyPrompt.rawModeSet /\ stdin.isTTY THEN FALSE ELSE @,
                    !.listener = FALSE]

Typed(char) == Append(keyPrompt.typed, char)

\* promptForApiKey is called, and runs to the end of the executor of its
\* promise or to a throw.
PromptForApiKey ==
    /\ keyPrompt.at = "idle"
    /\ IF ~stdin.isTTY
       THEN /\ keyPrompt' = [keyPrompt EXCEPT !.at = "rejected",
                                        !.promise = <<"rejected", NotATTY>>]
            /\ UNCHANGED stdin
       ELSE \E setRawModeThrows \in BOOLEAN :
               IF setRawModeThrows
               \* cleanup() is called from the catch, where onData is not
               \* yet initialised: it throws, with const as written or with
               \* const compiled to var (removeListener is given undefined).
               THEN \E error \in
                         { "ReferenceError: Cannot access 'onData' before initialization",
                           "TypeError [ERR_INVALID_ARG_TYPE]: The \"listener\" argument must be of type function" } :
                       /\ keyPrompt' = [keyPrompt EXCEPT !.at = "rejected", !.rl = "open",
                                                   !.promise = <<"rejected", error>>]
                       /\ UNCHANGED stdin
               ELSE /\ keyPrompt' = [keyPrompt EXCEPT !.at = "pending", !.rl = "open",
                                                !.rawModeSet = TRUE]
                    /\ stdin' = [stdin EXCEPT !.rawMode = TRUE, !.listener = TRUE]
    /\ UNCHANGED <<engineVars, pipelineVars, storeVars>>

\* A slip: every character but the handled ones appended, control
\* characters too.
OnDataAppendingAll(char) ==
    /\ stdin.listener
    /\ Len(keyPrompt.typed) < MaxKeys
    /\ IF char = LF \/ char = CR
       THEN /\ Cleanup
            /\ keyPrompt' = [keyPrompt EXCEPT !.at = "resolved", !.rl = "closed",
                                        !.promise = <<"resolved", keyPrompt.input>>,
                                        !.typed = Typed(char)]
       ELSE IF char = ETX
       THEN /\ Cleanup
            /\ keyPrompt' = [keyPrompt EXCEPT !.at = "exited", !.rl = "closed",
                                        !.typed = Typed(char)]
       ELSE IF char = DEL \/ char = BS
       THEN /\ keyPrompt' = [keyPrompt EXCEPT
                             !.input = IF Len(@) > 0 THEN SubSeq(@, 1, Len(@) - 1) ELSE @,
                             !.typed = Typed(char)]
            /\ UNCHANGED stdin
       ELSE /\ keyPrompt' = [keyPrompt EXCEPT !.input = Append(@, char),
                                        !.typed = Typed(char)]
            /\ UNCHANGED stdin
    /\ UNCHANGED <<engineVars, pipelineVars, storeVars>>

\* onData(char): the data listener is given one key.
OnData(char) ==
    /\ stdin.listener
    /\ Len(keyPrompt.typed) < MaxKeys
    /\ IF char = LF \/ char = CR
       THEN /\ Cleanup
            /\ keyPrompt' = [keyPrompt EXCEPT !.at = "resolved", !.rl = "closed",
                                        !.promise = <<"resolved", keyPrompt.input>>,
                                        !.typed = Typed(char)]
       ELSE IF char = ETX
       THEN /\ Cleanup
            /\ keyPrompt' = [keyPrompt EXCEPT !.at = "exited", !.rl = "closed",
                                        !.typed = Typed(char)]
       ELSE IF char = DEL \/ char = BS
       THEN /\ keyPrompt' = [keyPrompt EXCEPT
                             !.input = IF Len(@) > 0 THEN SubSeq(@, 1, Len(@) - 1) ELSE @,
                             !.typed = Typed(char)]
            /\ UNCHANGED stdin
       ELSE IF char >= Space
       THEN /\ keyPrompt' = [keyPrompt EXCEPT !.input = Append(@, char),
                                        !.typed = Typed(char)]
            /\ UNCHANGED stdin
       ELSE /\ keyPrompt' = [keyPrompt EXCEPT !.typed = Typed(char)]
            /\ UNCHANGED stdin
    /\ UNCHANGED <<engineVars, pipelineVars, storeVars>>

\* A key is pressed after the promise has resolved and before the process
\* has ended: stdin has no data listener, and the key goes nowhere.
KeyUnheard(char) ==
    /\ keyPrompt.at = "resolved"
    /\ ~stdin.listener
    /\ Len(keyPrompt.typed) < MaxKeys
    /\ keyPrompt' = [keyPrompt EXCEPT !.typed = Typed(char)]
    /\ UNCHANGED stdin
    /\ UNCHANGED <<engineVars, pipelineVars, storeVars>>

\* String.fromCharCode, for the printable keys of the model.
fromCharCode(char) ==
    CASE char = Space -> " "
      [] char = 107 -> "k"
      [] char = 34 -> "\""

RECURSIVE trimStart(_)
trimStart(str) ==
    IF str # <<>> /\ Head(str) = " " THEN trimStart(Tail(str)) ELSE str

RECURSIVE trimEnd(_)
trimEnd(str) ==
    IF str # <<>> /\ str[Len(str)] = " "
    THEN trimEnd(SubSeq(str, 1, Len(str) - 1))
    ELSE str

\* apiKey.trim()
trim(str) == trimEnd(trimStart(str))

\* handleConfig('set-key') after the await: the key is trimmed and saved,
\* or refused where nothing is left of it.
SetKey ==
    /\ keyPrompt.at = "resolved"
    /\ LET apiKey_ == [n \in 1..Len(keyPrompt.promise[2]) |->
                           fromCharCode(keyPrompt.promise[2][n])]
       IN  IF trim(apiKey_) = <<>>
           THEN /\ keyPrompt' = [keyPrompt EXCEPT !.at = "refused"]
                /\ UNCHANGED storeVars
           ELSE /\ keyPrompt' = [keyPrompt EXCEPT !.at = "saved"]
                /\ configFile' = <<JSONStringify(Config(trim(apiKey_)))>>
                /\ lastSaved' = Config(trim(apiKey_))
                /\ corrupt' = FALSE
                /\ Returns("saveConfig", <<>>)
    /\ UNCHANGED stdin
    /\ UNCHANGED <<engineVars, pipelineVars>>

PromptInit ==
    /\ EngineIdle
    /\ PipelineIdle
    /\ apiKey = FALSE
    /\ StoreIdle
    /\ PromptIdle
    /\ stdin \in {Stdin(TRUE), Stdin(FALSE)}

PromptNext ==
    \/ PromptForApiKey
    \/ \E char \in KeyCodes : OnData(char)
    \/ \E char \in KeyCodes : KeyUnheard(char)
    \/ SetKey

PromptSpec == PromptInit /\ [][PromptNext]_vars

(***************************************************************************)
(* What the claims speak of.                                               *)
(***************************************************************************)
\* The pixels the loop of extractAlphaTwoPass has written so far.
TwoPassProcessed == IF pc \in {"tp_loop", "tp_done"} THEN 1..i ELSE {}

\* The pixels the loop of removeBackgroundLocal has written so far.
LocalProcessed == IF pc \in {"lc_loop", "lc_done"} THEN 1..i ELSE {}

SameRGB(p1, p2) == p1[1] = p2[1] /\ p1[2] = p2[2] /\ p1[3] = p2[3]

ShapesDiffer(a, b) == a.width # b.width \/ a.height # b.height

\* X <= Y * sqrt(d / BgDistSq), for Y >= 0
LeRoot(X, Y, d) ==
    \/ X <= 0
    \/ Y > 0 /\ FracLe(X * X, Y * Y, d, BgDistSq)

\* Y * sqrt(d / BgDistSq) <= X, for Y >= 0
RootLe(Y, X, d) ==
    /\ X >= 0
    /\ Y = 0 \/ d = 0 \/ (X > 0 /\ FracLe(d, BgDistSq, X * X, Y * Y))

\* a * a <= c * q, for a, c, q >= 0
SquareLe(a, c, q) == a = 0 \/ FracLe(a, c, q, a)

(***************************************************************************)
(* C1.  extractAlphaTwoPass fails with the dimension-mismatch error for    *)
(* every pair of passes whose width or height differ, pairs of the same    *)
(* pixel count included: once the check has been made, a call whose two    *)
(* inputs differ in shape has failed.                                      *)
(***************************************************************************)
C1_MismatchForEveryShapeDifference ==
    (pc \in {"tp_loop", "tp_done", "tp_failed"} /\ ShapesDiffer(whiteFile, blackFile))
        => (pc = "tp_failed" /\ err = DimensionMismatch)

(***************************************************************************)
(* C2.  When extractAlphaTwoPass has ended with the dimension-mismatch     *)
(* error, the loop has run no turn, no output buffer holds a computed      *)
(* pixel and nothing has been written to the output path.                  *)
(***************************************************************************)
C2_NoOutputOnMismatch ==
    (pc = "tp_failed" /\ err = DimensionMismatch)
        => (i = 0 /\ outputBuffer = None /\ outFile = NoImage)

C2_Witness ==
    /\ pc = "tp_failed"
    /\ err = DimensionMismatch
    /\ Len(dataWhite) = 2
    /\ Len(dataBlack) = 1

(***************************************************************************)
(* C3.  Difference matting: a pixel whose white-pass RGB equals its        *)
(* black-pass RGB is written with alpha 255 and with exactly the           *)
(* black-pass RGB.                                                         *)
(***************************************************************************)
C3_OpaqueWhereThePassesAgree ==
    \A p \in TwoPassProcessed :
        SameRGB(dataWhite[p], dataBlack[p])
            => outputBuffer[p] =
                   Pixel(dataBlack[p][1], dataBlack[p][2], dataBlack[p][3], 255)

C3_Witness ==
    /\ pc = "tp_done"
    /\ \E p \in 1..i :
          /\ SameRGB(dataWhite[p], dataBlack[p])
          /\ SameRGB(dataBlack[p], Pixel(200, 100, 50, 255))
          /\ outFile.data[p] = Pixel(200, 100, 50, 255)

(***************************************************************************)
(* C4.  Difference matting: a pixel that is (255,255,255) in the white     *)
(* pass and (0,0,0) in the black pass is written as (0,0,0) with alpha 0.  *)
(***************************************************************************)
C4_TransparentWhereThePassesAreTheBackgrounds ==
    \A p \in TwoPassProcessed :
        (/\ SameRGB(dataWhite[p], Pixel(255, 255, 255, 255))
         /\ SameRGB(dataBlack[p], Pixel(0, 0, 0, 255)))
            => outputBuffer[p] = Pixel(0, 0, 0, 0)

C4_Witness ==
    /\ pc = "tp_done"
    /\ i = 2
    /\ \A p \in 1..2 :
          /\ SameRGB(dataWhite[p], Pixel(255, 255, 255, 255))
          /\ SameRGB(dataBlack[p], Pixel(0, 0, 0, 255))
          /\ outFile.data[p] = Pixel(0, 0, 0, 0)

(***************************************************************************)
(* C5.  Difference matting: the alpha byte does not increase with          *)
(* pixelDist.  Of two pixels, the one whose passes are no farther apart    *)
(* gets an alpha byte at least as large.                                   *)
(***************************************************************************)
C5_AlphaNonIncreasingInPixelDist ==
    \A p \in TwoPassProcessed, q \in TwoPassProcessed :
        PixelDistSq(dataWhite[p], dataBlack[p]) <= PixelDistSq(dataWhite[q], dataBlack[q])
            => outputBuffer[p][4] >= outputBuffer[q][4]

C5_Witness ==
    /\ pc = "tp_done"
    /\ \E p \in 1..i, q \in 1..i :
          /\ 0 < PixelDistSq(dataWhite[p], dataBlack[p])
          /\ PixelDistSq(dataWhite[p], dataBlack[p])
                 < PixelDistSq(dataWhite[q], dataBlack[q])
          /\ PixelDistSq(dataWhite[q], dataBlack[q]) < BgDistSq
          /\ outFile.data[p][4] > outFile.data[q][4]

(***************************************************************************)
(* C6.  Difference matting, with alpha = clamp(1 - pixelDist / bgDist):    *)
(* the alpha byte is round(alpha * 255); where alpha > 0.01 each colour    *)
(* channel is min(255, black-pass channel / alpha) rounded to a nearest    *)
(* integer, capped from above only; where alpha <= 0.01 the colour is      *)
(* (0,0,0); every byte written lies in 0..255.  With s the root of         *)
(* d / BgDistSq, alpha is 1 - s: round(alpha * 255) = k is                 *)
(* 509 - 2k < 510 s <= 511 - 2k, and o is nearest to c / alpha when        *)
(* (2o - 1)(1 - s) <= 2c <= (2o + 1)(1 - s).                               *)
(***************************************************************************)
C6_AlphaByteIs(k, d) ==
    /\ RootLe(510, 511 - 2 * k, d)
    /\ ~RootLe(510, 509 - 2 * k, d)

C6_ChannelIs(o, c, d) ==
    /\ LeRoot(2 * o - 1 - 2 * c, 2 * o - 1, d)
    /\ \/ o = 255
       \/ RootLe(2 * o + 1, 2 * o + 1 - 2 * c, d)

C6_RecoveredColourAndAlpha ==
    \A p \in TwoPassProcessed :
        LET d == PixelDistSq(dataWhite[p], dataBlack[p])
            out == outputBuffer[p]
        IN  /\ \A ch \in 1..4 : out[ch] \in Bytes
            /\ C6_AlphaByteIs(out[4], d)
            /\ IF 10000 * d < 9801 * BgDistSq
               THEN \A ch \in 1..3 : C6_ChannelIs(out[ch], dataBlack[p][ch], d)
               ELSE SameRGB(out, Pixel(0, 0, 0, 0))

\* White against (8,0,0): alpha is 0.0103, the red channel 8 / alpha is
\* capped at 255, the alpha byte is 3.
C6_Witness ==
    /\ pc = "tp_done"
    /\ SameRGB(dataWhite[1], Pixel(255, 255, 255, 255))
    /\ SameRGB(dataBlack[1], Pixel(8, 0, 0, 255))
    /\ outFile.data[1] = Pixel(255, 0, 0, 3)

(***************************************************************************)
(* C7.  Local chroma key, tolerance T in 0..255, distSq the squared        *)
(* distance of the pixel to the background: the alpha byte is 0 if         *)
(* distSq <= T*T, round(255 * (sqrt(distSq) - T) / T) if                   *)
(* T*T < distSq <= 4*T*T, and 255 beyond.  round(...) = k is               *)
(* (2k + 509) T <= 510 sqrt(distSq) < (2k + 511) T.                        *)
(***************************************************************************)
C7_RampIs(k, distSq, T) ==
    /\ SquareLe((2 * k + 509) * T, 510 * 510, distSq)
    /\ ~SquareLe((2 * k + 511) * T, 510 * 510, distSq)

C7_AlphaByCase ==
    \A p \in LocalProcessed :
        LET distSq == DistSquared(inputFile.data[p], bgColor)
            T == tolerance
            k == data[p][4]
        IN  T \in 0..255 =>
                /\ k \in Bytes
                /\ distSq <= T * T => k = 0
                /\ (T * T < distSq /\ distSq <= 4 * T * T) => C7_RampIs(k, distSq, T)
                /\ distSq > 4 * T * T => k = 255

\* Tolerance 30 against green: (0,255,30) is transparent, (0,255,31) is on
\* the ramp at 8.5, written 9, and the red pixel is opaque.
C7_Witness ==
    /\ pc = "lc_done"
    /\ tolerance = 30
    /\ bgColor = [r |-> 0, g |-> 255, b |-> 0]
    /\ \E p \in 1..i : SameRGB(inputFile.data[p], Pixel(0, 255, 31, 255))
                       /\ outFile.data[p][4] = 9
    /\ \E p \in 1..i : \/ SameRGB(inputFile.data[p], Pixel(0, 255, 30, 255))
                          /\ outFile.data[p][4] = 0
                       \/ SameRGB(inputFile.data[p], Pixel(255, 0, 0, 255))
                          /\ outFile.data[p][4] = 255

(***************************************************************************)
(* C8.  Local chroma key, tolerance T in 0..255: a pixel with              *)
(* distSq = T*T gets alpha byte 0 and a pixel with distSq = (2T)*(2T)      *)
(* gets alpha byte 255.                                                    *)
(***************************************************************************)
C8_ExactAtBothEndsOfTheBand ==
    \A p \in LocalProcessed :
        LET distSq == DistSquared(inputFile.data[p], bgColor)
            T == tolerance
        IN  T \in 0..255 =>
                /\ distSq = T * T => data[p][4] = 0
                /\ distSq = (2 * T) * (2 * T) => data[p][4] = 255

\* C8 as amended: the outer end is exact for T in 1..255; with T = 0 the
\* two ends are the same pixels (distSq = 0), and they get alpha byte 0.
C8_ExactAtBothEndsForPositiveTolerance ==
    \A p \in LocalProcessed :
        LET distSq == DistSquared(inputFile.data[p], bgColor)
            T == tolerance
        IN  T \in 0..255 =>
                /\ distSq = T * T => data[p][4] = 0
                /\ (T >= 1 /\ distSq = (2 * T) * (2 * T)) => data[p][4] = 255

C8_Witness ==
    /\ pc = "lc_done"
    /\ tolerance = 30
    /\ i = 2
    /\ DistSquared(inputFile.data[1], bgColor) = 30 * 30
    /\ outFile.data[1][4] = 0
    /\ DistSquared(inputFile.data[2], bgColor) = 60 * 60
    /\ outFile.data[2][4] = 255

(***************************************************************************)
(* C9.  Local chroma key: inside the falloff band the alpha byte is        *)
(* strictly increasing, a1 < a2 for T*T < distSq1 < distSq2 <= 4*T*T.      *)
(***************************************************************************)
C9_StrictlyIncreasingInTheBand ==
    \A p \in LocalProcessed, q \in LocalProcessed :
        LET d1 == DistSquared(inputFile.data[p], bgColor)
            d2 == DistSquared(inputFile.data[q], bgColor)
            T == tolerance
        IN  (T \in 0..255 /\ T * T < d1 /\ d1 < d2 /\ d2 <= 4 * T * T)
                => data[p][4] < data[q][4]

\* C9 as amended: the alpha byte is non-decreasing inside the band.
C9_NonDecreasingInTheBand ==
    \A p \in LocalProcessed, q \in LocalProcessed :
        LET d1 == DistSquared(inputFile.data[p], bgColor)
            d2 == DistSquared(inputFile.data[q], bgColor)
            T == tolerance
        IN  (T \in 0..255 /\ T * T < d1 /\ d1 < d2 /\ d2 <= 4 * T * T)
                => data[p][4] <= data[q][4]

C9_Witness ==
    /\ pc = "lc_done"
    /\ i = 2
    /\ tolerance * tolerance < DistSquared(inputFile.data[1], bgColor)
    /\ DistSquared(inputFile.data[1], bgColor) < DistSquared(inputFile.data[2], bgColor)
    /\ DistSquared(inputFile.data[2], bgColor) < 4 * tolerance * tolerance
    /\ outFile.data[1][4] < outFile.data[2][4]

(***************************************************************************)
(* C10.  The local chroma key leaves the R, G and B bytes of every pixel   *)
(* as read; only alpha bytes change, and the output has the width and      *)
(* height of the input.                                                    *)
(***************************************************************************)
C10_OnlyAlphaChanges ==
    /\ pc \in {"lc_loop", "lc_done"} =>
          /\ Len(data) = Len(inputFile.data)
          /\ \A p \in 1..Len(data) : SameRGB(data[p], inputFile.data[p])
          /\ \A p \in (i + 1)..Len(data) : data[p] = inputFile.data[p]
    /\ pc = "lc_done" =>
          /\ outFile.width = inputFile.width
          /\ outFile.height = inputFile.height
          /\ Len(outFile.data) = Len(inputFile.data)
          /\ \A p \in 1..Len(outFile.data) : SameRGB(outFile.data[p], inputFile.data[p])

\* A transparent red pixel comes out opaque and a green one transparent;
\* both keep their colour.
C10_Witness ==
    /\ pc = "lc_done"
    /\ inputFile.width = 1
    /\ inputFile.height = 2
    /\ inputFile.data[1] = Pixel(255, 0, 0, 0)
    /\ outFile.data[1] = Pixel(255, 0, 0, 255)
    /\ inputFile.data[2] = Pixel(0, 255, 0, 255)
    /\ outFile.data[2] = Pixel(0, 255, 0, 0)

(***************************************************************************)
(* C11.  The local chroma key is idempotent: run again on its own output   *)
(* with the same background spec (a colour, or auto) and the same          *)
(* tolerance, it writes an image of the same shape whose RGB and alpha     *)
(* bytes are those of the first output.                                    *)
(***************************************************************************)
C11_SecondRunReproducesTheFirst ==
    (pc = "lc_done" /\ prior # NoImage) => outFile = prior

C11_Witness ==
    /\ pc = "lc_done"
    /\ prior # NoImage
    /\ options.bgColor = Auto
    /\ outFile = prior
    /\ \E p \in 1..Len(outFile.data) : outFile.data[p][4] \in 1..254
    /\ \E p \in 1..Len(outFile.data) : outFile.data[p][4] = 0


(***************************************************************************)
(* C12.  The local chroma key fails with the invalid-colour error, before  *)
(* the alpha of any pixel is computed or written, for every non-empty      *)
(* background spec that is none of 'white', 'black', 'auto', or six        *)
(* hexadecimal digits with at most one '#', leading, before them.          *)
(***************************************************************************)
\* Exactly six hexadecimal digits, optionally preceded by one leading '#'.
C12_SixDigitsWithOptionalLeadingHash(color) ==
    \/ IsHexColor(color)
    \/ Len(color) = 7 /\ color[1] = "#" /\ IsHexColor(Tail(color))

C12_InvalidColourForEveryMalformedSpec ==
    ( /\ pc \in {"lc_loop", "lc_done", "lc_failed"}
      /\ options.bgColor \notin {<<>>, Auto, White, Black}
      /\ ~C12_SixDigitsWithOptionalLeadingHash(options.bgColor) )
        => ( /\ pc = "lc_failed"
             /\ err = InvalidHexColor
             /\ i = 0
             /\ data = inputFile.data
             /\ outFile = NoImage )


(***************************************************************************)
(* C13.  A tolerance outside [0,255] makes the local chroma key fail       *)
(* before any pixel is processed, a direct call of removeBackgroundLocal   *)
(* with such an options.tolerance included: no turn of the loop runs with  *)
(* it and no output is written.                                            *)
(***************************************************************************)
C13_NoPixelProcessedWithToleranceOutOfRange ==
    (LocalProcessed # {} \/ pc = "lc_done") => tolerance \in 0..255


(***************************************************************************)
(* C14.  When the background spec is absent or 'auto', the background      *)
(* colour in use is, per channel, floor((sum + 2) / 4) for the sum of that *)
(* channel over the pixels at (0,0), (w-1,0), (0,h-1) and (w-1,h-1); each  *)
(* channel of it lies in 0..255; and when the four corners have one        *)
(* colour it is that colour, also where corners coincide because the       *)
(* image is one pixel wide or high.                                        *)
(***************************************************************************)
\* The input pixel at column x of row y, both counted from 0.
C14_At(x, y) == inputFile.data[y * inputFile.width + x + 1]

C14_CornerSum(ch) ==
    LET w == inputFile.width
        h == inputFile.height
    IN  C14_At(0, 0)[ch] + C14_At(w - 1, 0)[ch]
        + C14_At(0, h - 1)[ch] + C14_At(w - 1, h - 1)[ch]

C14_BackgroundIsTheRoundedCornerAverage ==
    (pc \in {"lc_loop", "lc_done"} /\ options.bgColor \in {<<>>, Auto})
        => LET w == inputFile.width
               h == inputFile.height
               est == <<bgColor.r, bgColor.g, bgColor.b>>
           IN  /\ \A ch \in 1..3 :
                      /\ est[ch] = (C14_CornerSum(ch) + 2) \div 4
                      /\ est[ch] \in 0..255
               /\ ( /\ SameRGB(C14_At(0, 0), C14_At(w - 1, 0))
                    /\ SameRGB(C14_At(0, 0), C14_At(0, h - 1))
                    /\ SameRGB(C14_At(0, 0), C14_At(w - 1, h - 1)) )
                        => \A ch \in 1..3 : est[ch] = C14_At(0, 0)[ch]

\* A two by two image whose corner sums are 2 and 122: the averages 0.5 and
\* 30.5 are rounded up.
C14_Witness ==
    /\ pc = "lc_loop"
    /\ options.bgColor = Auto
    /\ inputFile.width = 2
    /\ inputFile.height = 2
    /\ C14_CornerSum(1) = 2
    /\ C14_CornerSum(3) = 122
    /\ bgColor = [r |-> 1, g |-> 255, b |-> 31]


(***************************************************************************)
(* C15.  As claimed: neither engine writes into a buffer that holds its    *)
(* input pixels; during and after a call the decoded buffers of both       *)
(* engines hold the bytes that were decoded.                               *)
(***************************************************************************)
C15_NoInputBufferIsWritten ==
    /\ pc \in {"tp_check", "tp_loop", "tp_done", "tp_failed"}
           => (dataWhite = whiteFile.data /\ dataBlack = blackFile.data)
    /\ pc \in {"lc_bg", "lc_loop", "lc_done", "lc_failed"}
           => data = inputFile.data

(***************************************************************************)
(* C15, amended.  Difference matting writes into a buffer of its own,      *)
(* allocated after the length check and zero where the loop has not yet    *)
(* written, and its two decoded buffers keep their bytes.  The local       *)
(* chroma key allocates no output buffer: each turn of its loop overwrites *)
(* the alpha byte of one pixel of the decoded buffer itself, the pixels    *)
(* not yet reached are as decoded, R, G and B never change, and that same  *)
(* buffer is what is encoded as the output.                                *)
(***************************************************************************)
C15_OnlyTheLocalEngineWritesInPlace ==
    /\ pc \in {"tp_check", "tp_loop", "tp_done", "tp_failed"}
           => (dataWhite = whiteFile.data /\ dataBlack = blackFile.data)
    /\ pc \in {"tp_loop", "tp_done"}
           => /\ Len(outputBuffer) = Len(dataWhite)
              /\ \A p \in (1..Len(outputBuffer)) \ TwoPassProcessed :
                     outputBuffer[p] = Pixel(0, 0, 0, 0)
    /\ pc \in {"lc_bg", "lc_loop", "lc_done", "lc_failed"}
           => /\ Len(data) = Len(inputFile.data)
              /\ \A p \in 1..Len(data) : SameRGB(data[p], inputFile.data[p])
              /\ \A p \in (1..Len(data)) \ LocalProcessed : data[p] = inputFile.data[p]
    /\ pc = "lc_done" => outFile.data = data

\* The local loop has overwritten an alpha byte of the decoded buffer, and
\* that buffer has been encoded.
C15_Witness ==
    /\ pc = "lc_done"
    /\ outFile.data = data
    /\ \E p \in 1..Len(data) : data[p][4] # inputFile.data[p][4]

(***************************************************************************)
(* C16.  Per-pixel work has no inter-pixel dependency.  In difference      *)
(* matting output pixel p is what the loop body gives for pixel p of the   *)
(* two inputs (the alpha byte and the colour of C6, taken on the pixels p  *)
(* of the two decoded files).  In the local chroma key output pixel p is   *)
(* what the loop body gives for input pixel p, the tolerance and the       *)
(* background colour; an explicit background colour is read from the       *)
(* options alone, and with the background absent or 'auto' it is the same  *)
(* for the input with any pixel j changed that is not one of the four      *)
(* corners.  A turn of the loop writes its own pixel only (the pixels not  *)
(* yet reached are untouched), so the order of the turns does not matter.  *)
(***************************************************************************)
\* Pixel number j (from 1) is one of the four corners of the input.
C16_IsCorner(j) ==
    LET w == inputFile.width
        h == inputFile.height
    IN  j - 1 \in {0, w - 1, (h - 1) * w, (h - 1) * w + (w - 1)}

\* out is a pixel the loop body of difference matting gives for the
\* white-pass pixel W and the black-pass pixel B.
C16_FromItsOwnPixels(out, W, B) ==
    LET d == PixelDistSq(W, B)
    IN  /\ C6_AlphaByteIs(out[4], d)
        /\ IF AlphaAboveGuard(d)
           THEN \A ch \in 1..3 : C6_ChannelIs(out[ch], B[ch], d)
           ELSE SameRGB(out, Pixel(0, 0, 0, 0))

\* The pixels of the input that are no corner.
C16_Inner == {j \in 1..Len(inputFile.data) : ~C16_IsCorner(j)}

C16_OutputPixelDependsOnItsInputPixelOnly ==
    /\ pc \in {"lc_loop", "lc_done"}
           => /\ IF options.bgColor \in {<<>>, Auto}
                 THEN \A j \in C16_Inner : \A c \in LocalPalette :
                          bgColor = CornerBackground([inputFile.data EXCEPT ![j] = c],
                                                     inputFile.width, inputFile.height)
                 ELSE bgColor = ParseColor(options.bgColor)
              /\ \A p \in LocalProcessed :
                     data[p] = LocalPixelOut(inputFile.data[p], bgColor,
                                             ToleranceOf(options))
              /\ \A p \in (1..Len(data)) \ LocalProcessed :
                     data[p] = inputFile.data[p]
    /\ pc \in {"tp_loop", "tp_done"}
           => /\ \A p \in TwoPassProcessed :
                     C16_FromItsOwnPixels(outputBuffer[p], whiteFile.data[p],
                                          blackFile.data[p])
              /\ \A p \in (1..Len(outputBuffer)) \ TwoPassProcessed :
                     outputBuffer[p] = Pixel(0, 0, 0, 0)

\* Three pixels in a row under 'auto': the middle one is no corner, and it
\* alone is kept partly opaque.
C16_Witness ==
    /\ pc = "lc_done"
    /\ options.bgColor = Auto
    /\ inputFile.width = 3
    /\ ~C16_IsCorner(2)
    /\ outFile.data[1][4] = 0
    /\ outFile.data[2][4] \in 1..254
    /\ outFile.data[3][4] = 0


(***************************************************************************)
(* C17.  Concurrent calls over different images never interact: in every   *)
(* interleaving of two overlapping calls of generateWithTransparency or    *)
(* extractTransparencyFromImage on one output directory, a file a call has *)
(* written still holds what that call wrote (the other has not written     *)
(* over it), and the passes a call decodes are its own white pass and its  *)
(* own black pass.                                                         *)
(***************************************************************************)
C17_CallsNeverInteract ==
    \A c \in Calls :
        /\ \A name \in wrote[c] : files[name][1] = c
        /\ decoded[c].white # <<>> => decoded[c].white = <<c, "white">>
        /\ decoded[c].black # <<>> => decoded[c].black = <<c, "black">>


(***************************************************************************)
(* C18.  When the input file does not exist, extractTransparencyFromImage  *)
(* (with every method, local or not) and edit fail with the                *)
(* input-not-found error before the file is read or decoded, before any    *)
(* API call, before the output directory is created and before any file    *)
(* is written: such a call has failed with that error and has had no       *)
(* effect at all.                                                          *)
(***************************************************************************)
C18_MissingInputFailsBeforeAnyEffect ==
    \A c \in Calls :
        ( /\ fn[c] \in {"extractTransparencyFromImage", "edit"}
          /\ ~callOpts[c].inputExists )
            => /\ stage[c] = "failed"
               /\ failure[c] = InputNotFound
               /\ did[c] = {}
               /\ wrote[c] = {}
               /\ \A name \in DOMAIN files : files[name][1] # c

\* A local extraction and an edit, both of a missing input, have failed.
C18_Witness ==
    /\ fn["a"] = "extractTransparencyFromImage"
    /\ callOpts["a"].method = "local"
    /\ ~callOpts["a"].inputExists
    /\ failure["a"] = InputNotFound
    /\ fn["b"] = "edit"
    /\ ~callOpts["b"].inputExists
    /\ failure["b"] = InputNotFound

(***************************************************************************)
(* C19: with method local, background removal makes no API call.  A call   *)
(* of extractTransparencyFromImage with method local never requests        *)
(* generateImage or editImage, so it fails only for a missing input, never *)
(* for a missing API key; it writes no _white_ or _black_ intermediate     *)
(* file; once it has returned it has written exactly one file, its output; *)
(* and the command edit-transparent with --method local never asks for a   *)
(* cost confirmation, --cost given or not.                                 *)
(***************************************************************************)
C19_LocalRemovalMakesNoApiCall ==
    /\ \A c \in Calls :
          ( /\ fn[c] = "extractTransparencyFromImage"
            /\ MethodOf(callOpts[c].method) = "local" )
              => /\ ApiCalls(c) = {}
                 /\ <<"confirmCost">> \notin did[c]
                 /\ \A name \in wrote[c] :
                        name[2] \notin {"_white_", "_black_"} /\ name = OutputPath(c)
                 /\ stage[c] = "returned" => wrote[c] = {OutputPath(c)}
                 /\ stage[c] = "failed" =>
                        ~callOpts[c].inputExists /\ failure[c] = InputNotFound
    /\ ( /\ argv # <<>>
         /\ argv[1] = "edit-transparent"
         /\ Parsed.error = "none"
         /\ Parsed.method = "local" )
           => /\ cli.at # "confirming"
              /\ <<"confirmCost">> \notin did[CliCall]

\* edit-transparent --method local --cost has run to its end with no API
\* key configured, and has written its output.
C19_Witness ==
    /\ argv # <<>>
    /\ argv[1] = "edit-transparent"
    /\ Parsed.method = "local"
    /\ Parsed.showCost
    /\ ~apiKey
    /\ cli.at = "done"
    /\ stage[CliCall] = "returned"
    /\ wrote[CliCall] = {OutputPath(CliCall)}
    /\ DOMAIN files = {OutputPath(CliCall)}

(***************************************************************************)
(* C20: for the commands transparent, transparent-icon, transparent-logo   *)
(* and transparent-ui, --method local ends the process with an error (the  *)
(* one that names edit-transparent, when an output directory and a prompt  *)
(* are given) with no cost confirmation asked, no reference image read, no *)
(* API call made and no file written; and generateWithTransparency is      *)
(* called from the command line with pro-pro, pro-flash or flash-flash     *)
(* only.                                                                   *)
(***************************************************************************)
C20_LocalIsRejectedForGeneration ==
    /\ ( /\ argv # <<>>
         /\ argv[1] \in TransparentCommands
         /\ Parsed.method = "local" )
           => /\ cli.at = "exited"
              /\ cli.error # "none"
              /\ (Parsed.error = "none" /\ Parsed.outputDir # "" /\ Parsed.promptParts # <<>>)
                    => cli.error = LocalOnlyForEditTransparent
              /\ did[CliCall] = {}
              /\ wrote[CliCall] = {}
              /\ files = <<>>
              /\ fn[CliCall] = "none"
              /\ stage[CliCall] = "idle"
    /\ fn[CliCall] = "generateWithTransparency"
           => callOpts[CliCall].method \in {"pro-pro", "pro-flash", "flash-flash"}

\* transparent-... --method local has been rejected, --cost and a
\* reference image given.
C20_Witness ==
    /\ argv # <<>>
    /\ argv[1] \in TransparentCommands
    /\ Parsed.method = "local"
    /\ Parsed.showCost
    /\ Parsed.referenceImages = <<"ref.png">>
    /\ cli = [at |-> "exited", error |-> LocalOnlyForEditTransparent]


(***************************************************************************)
(* C21: with --cost, for generate, icon, logo, ui, edit, the transparent   *)
(* commands and edit-transparent with a method other than local, nothing   *)
(* is requested of the API and no file is written before the confirmation  *)
(* is answered; an answer other than y or yes, in any case of letters,     *)
(* ends the command as cancelled with no API call made and no file         *)
(* written.                                                                *)
(***************************************************************************)
C21_Answers == {e \in did[CliCall] : e[1] = "answer"}

C21_NothingIsDoneBeforeTheCostIsConfirmed ==
    /\ cli.at = "confirming"
          => /\ ApiCalls(CliCall) = {}
             /\ wrote[CliCall] = {}
             /\ files = <<>>
             /\ stage[CliCall] = "idle"
    /\ ( /\ argv # <<>>
         /\ Parsed.showCost
         /\ ApiCalls(CliCall) # {} \/ wrote[CliCall] # {} \/ files # <<>> )
           => \/ \E e \in C21_Answers : toLowerCase(e[2]) \in {"y", "yes"}
              \/ argv[1] = "edit-transparent" /\ Parsed.method = "local"
    /\ \A e \in C21_Answers :
          toLowerCase(e[2]) \notin {"y", "yes"}
              => /\ cli.at = "cancelled"
                 /\ ApiCalls(CliCall) = {}
                 /\ wrote[CliCall] = {}
                 /\ files = <<>>
                 /\ fn[CliCall] = "none"
    /\ cli.at = "cancelled"
          => \E e \in C21_Answers : toLowerCase(e[2]) \notin {"y", "yes"}

\* A generation with --cost and a reference image has been cancelled by
\* the answer 'ye'.
C21_Witness ==
    /\ argv # <<>>
    /\ argv[1] \in GenerateCommands
    /\ Parsed.referenceImages # <<>>
    /\ <<"answer", "ye">> \in did[CliCall]
    /\ cli.at = "cancelled"


(***************************************************************************)
(* C22: the models of the two-pass pipeline follow the method table:       *)
(* pro-pro generates and edits with nano-banana-pro, pro-flash generates   *)
(* with nano-banana-pro and edits with nano-banana, flash-flash generates  *)
(* and edits with nano-banana, and no method given is pro-pro; and the     *)
(* models the --cost estimate of a transparent or edit-transparent command *)
(* names are those the pipeline then calls.                                *)
(***************************************************************************)
C22_Pro == "nano-banana-pro"

C22_Flash == "nano-banana"

\* The table: the generation and the editing model of a method.
C22_Table(method) ==
    CASE method = "pro-pro" -> <<C22_Pro, C22_Pro>>
      [] method = "pro-flash" -> <<C22_Pro, C22_Flash>>
      [] method = "flash-flash" -> <<C22_Flash, C22_Flash>>
      [] method = "" -> <<C22_Pro, C22_Pro>>

C22_ModelsFollowTheMethodTable ==
    /\ \A c \in Calls :
          ( /\ fn[c] \in {"generateWithTransparency", "extractTransparencyFromImage"}
            /\ callOpts[c].method # "local" )
              => \A e \in ApiCalls(c) :
                     /\ e[1] = "generateImage" => e[2] = C22_Table(callOpts[c].method)[1]
                     /\ e[1] = "editImage" => e[2] = C22_Table(callOpts[c].method)[2]
    /\ ( /\ argv # <<>>
         /\ argv[1] \in TransparentCommands \cup {"edit-transparent"}
         /\ fn[CliCall] # "none" )
           => /\ callOpts[CliCall].method = MethodOf(Parsed.method)
              /\ \A est \in {e \in did[CliCall] : e[1] = "estimate"} :
                     \A e \in ApiCalls(CliCall) :
                         /\ e[1] = "generateImage" => e[2] = est[2]
                         /\ e[1] = "editImage" => e[2] = est[3]

\* transparent-... --method pro-flash --cost has returned: the estimate
\* and the pipeline both name nano-banana-pro, then nano-banana.
C22_Witness ==
    /\ argv # <<>>
    /\ argv[1] \in TransparentCommands
    /\ Parsed.method = "pro-flash"
    /\ stage[CliCall] = "returned"
    /\ <<"estimate", C22_Pro, C22_Flash>> \in did[CliCall]
    /\ <<"generateImage", C22_Pro, <<>>>> \in did[CliCall]
    /\ <<"editImage", C22_Flash>> \in did[CliCall]


(***************************************************************************)
(* C23: the config lifecycle.  loadConfig returns the config most recently *)
(* saved when no clearConfig has run since, and null otherwise, also when  *)
(* the file does not parse; clearConfig returns true exactly when a file   *)
(* was there before the call, and leaves none either way; getApiKey throws *)
(* 'API key not configured' exactly when loadConfig gives null or a config *)
(* with an empty apiKey, and returns the key otherwise.                    *)
(***************************************************************************)
C23_Expected == IF corrupt THEN Null ELSE lastSaved

C23_ConfigLifecycle ==
    /\ ret.op = "loadConfig" => ret.value = C23_Expected
    /\ ret.op = "clearConfig"
          => /\ ret.value = <<earlier.saved # Null \/ earlier.corrupt>>
             /\ configFile = NoFile
    /\ ret.op = "getApiKey"
          => ret.value = IF C23_Expected = Null \/ C23_Expected[1] = <<>>
                         THEN <<"throw", ApiKeyNotConfigured>>
                         ELSE <<"return", C23_Expected[1]>>

\* A key of a quote and a backslash has been saved and loaded again.
C23_Witness ==
    /\ lastSaved = Config(<<"\"", "\\">>)
    /\ ret = [op |-> "loadConfig", value |-> Config(<<"\"", "\\">>)]


(***************************************************************************)
(* C24: config show never reveals the stored key in full.  For a key of 8  *)
(* characters or fewer it prints '****', for a longer one the first four   *)
(* characters, '...' and the last four; what it prints is never the key    *)
(* itself.                                                                 *)
(***************************************************************************)
C24_Stars == <<"*", "*", "*", "*">>

C24_Dots == <<".", ".", ".">>

C24_ShowNeverRevealsTheKey ==
    (ret.op = "show" /\ C23_Expected # Null)
        => LET key == C23_Expected[1]
               shown == ret.value[2]
           IN  /\ Len(key) <= 8 => shown = C24_Stars
               /\ Len(key) > 8 =>
                      /\ Len(shown) = 11
                      /\ SubSeq(shown, 1, 4) = SubSeq(key, 1, 4)
                      /\ SubSeq(shown, 5, 7) = C24_Dots
                      /\ SubSeq(shown, 8, 11) = SubSeq(key, Len(key) - 3, Len(key))
               /\ shown # key


(***************************************************************************)
(* C25: the order of the two-pass pipeline, in generateWithTransparency    *)
(* and in extractTransparencyFromImage with an API method.  While the      *)
(* white pass is awaited nothing is written; while the black pass is       *)
(* awaited the white pass, and nothing else, is written; extractAlphaTwo-  *)
(* Pass runs only with both passes written, and decodes the white file as  *)
(* its white pass and the black file as its black pass; a white request    *)
(* that fails leaves no file, a black request that fails leaves no decode  *)
(* and no output; and a call has returned only with its output written     *)
(* after both passes were decoded.                                         *)
(***************************************************************************)
C25_TwoPass(c) ==
    \/ fn[c] = "generateWithTransparency"
    \/ fn[c] = "extractTransparencyFromImage"
         /\ callOpts[c].inputExists /\ MethodOf(callOpts[c].method) # "local"

C25_Decodes(c) == {e \in did[c] : e[1] = "decode"}

C25_TheTwoPassesComeInOrder ==
    \A c \in Calls :
        C25_TwoPass(c) =>
            /\ stage[c] \in {"g_generating", "e_whitening"}
                  => wrote[c] = {} /\ C25_Decodes(c) = {}
            /\ stage[c] \in {"g_editing", "e_blackening"}
                  => /\ wrote[c] = {WhitePath(timestamp[c])}
                     /\ WhitePath(timestamp[c]) \in DOMAIN files
                     /\ C25_Decodes(c) = {}
            /\ C25_Decodes(c) # {}
                  => /\ {WhitePath(timestamp[c]), BlackPath(timestamp[c])} \subseteq wrote[c]
                     /\ stage[c] \in {"x_black", "x_write", "returned"}
            /\ decoded[c].white # <<>> => decoded[c].white[2] = "white"
            /\ decoded[c].black # <<>> => decoded[c].black[2] = "black"
            /\ \A e \in did[c] :
                  /\ (e[1] = "rejected" /\ e[2] \in {"g_generating", "e_whitening"})
                        => wrote[c] = {} /\ C25_Decodes(c) = {} /\ stage[c] = "failed"
                  /\ (e[1] = "rejected" /\ e[2] \in {"g_editing", "e_blackening"})
                        => /\ wrote[c] = {WhitePath(timestamp[c])}
                           /\ C25_Decodes(c) = {}
                           /\ stage[c] = "failed"
            /\ stage[c] = "returned"
                  => /\ C25_Decodes(c) = {<<"decode", "_white_">>, <<"decode", "_black_">>}
                     /\ wrote[c] = {WhitePath(timestamp[c]), BlackPath(timestamp[c]),
                                    OutputPath(c)}

\* One call has returned with its three files; the other has failed at its
\* black pass, with its white pass written.
C25_Witness ==
    /\ fn["a"] = "generateWithTransparency"
    /\ stage["a"] = "returned"
    /\ fn["b"] = "extractTransparencyFromImage"
    /\ <<"rejected", "e_blackening">> \in did["b"]
    /\ now = 1


(***************************************************************************)
(* C26: promptForApiKey over single-character key events on a terminal.    *)
(* It resolves at the first line feed or carriage return, with the string  *)
(* the earlier keys make when applied in order: a printable character is   *)
(* appended, backspace and DEL remove the last character if there is one,  *)
(* any other control character is ignored.  When it has resolved raw mode  *)
(* is off, the data listener removed and the readline interface closed, so *)
(* that no later key changes the result; and raw mode is off after Ctrl+C  *)
(* as well.                                                                *)
(***************************************************************************)
C26_Ends == {LF, CR, ETX}

\* The place of the first key that ends the prompt; 0 if there is none.
C26_FirstEnd(keys) ==
    IF \E n \in 1..Len(keys) : keys[n] \in C26_Ends
    THEN CHOOSE n \in 1..Len(keys) :
             /\ keys[n] \in C26_Ends
             /\ \A m \in 1..(n - 1) : keys[m] \notin C26_Ends
    ELSE 0

RECURSIVE C26_Apply(_)
\* The string the keys make, the last key applied last.
C26_Apply(keys) ==
    IF keys = <<>>
    THEN <<>>
    ELSE LET sofar == C26_Apply(SubSeq(keys, 1, Len(keys) - 1))
             key == keys[Len(keys)]
         IN  IF key \in {BS, DEL}
             THEN IF sofar = <<>> THEN <<>> ELSE SubSeq(sofar, 1, Len(sofar) - 1)
             ELSE IF key < Space
             THEN sofar
             ELSE Append(sofar, key)

C27_PromptErrorPaths ==
    keyPrompt.promise[1] = "rejected"
        => IF ~stdin.isTTY
           THEN /\ keyPrompt.promise[2] = NotATTY
                /\ keyPrompt.rl = "none"
                /\ ~stdin.rawMode
           ELSE /\ keyPrompt.promise[2] = CannotSetRawMode
                /\ keyPrompt.rl = "closed"
                /\ ~stdin.listener


(***************************************************************************)
(* C28: both engines ignore the alpha channel of their inputs.  The output *)
(* of the chroma key is what it would be with any other alpha bytes in the *)
(* input (the background taken from the corners included), and a pixel     *)
(* that comes in transparent goes out fully opaque when its colour is      *)
(* farther than 2T from the background; the output of difference matting   *)
(* is what it would be with any other alpha bytes in either pass.          *)
(***************************************************************************)
\* The pixel with another alpha byte: 255 - a differs from a for every byte.
C28_OtherAlpha(px) == Pixel(px[1], px[2], px[3], 255 - px[4])

C28_InputAlphaIsIgnored ==
    /\ pc \in {"lc_loop", "lc_done"}
           => /\ options.bgColor \in {<<>>, Auto}
                    => bgColor = CornerBackground(
                                     [p \in 1..Len(inputFile.data) |->
                                          C28_OtherAlpha(inputFile.data[p])],
                                     inputFile.width, inputFile.height)
              /\ \A p \in LocalProcessed :
                     /\ data[p] = LocalPixelOut(C28_OtherAlpha(inputFile.data[p]),
                                                bgColor, ToleranceOf(options))
                     /\ ( /\ inputFile.data[p][4] = 0
                          /\ ToleranceOf(options) \in 0..255
                          /\ DistSquared(inputFile.data[p], bgColor)
                                 > (2 * ToleranceOf(options)) * (2 * ToleranceOf(options)) )
                            => data[p][4] = 255
    /\ pc \in {"tp_loop", "tp_done"}
           => \A p \in TwoPassProcessed :
                  /\ C16_FromItsOwnPixels(outputBuffer[p],
                                          C28_OtherAlpha(whiteFile.data[p]),
                                          blackFile.data[p])
                  /\ C16_FromItsOwnPixels(outputBuffer[p],
                                          whiteFile.data[p],
                                          C28_OtherAlpha(blackFile.data[p]))

\* A transparent red pixel has gone through the chroma key against green
\* and come out opaque.
C28_Witness ==
    /\ pc = "lc_done"
    /\ bgColor = [r |-> 0, g |-> 255, b |-> 0]
    /\ \E p \in 1..Len(inputFile.data) :
           /\ inputFile.data[p] = Pixel(255, 0, 0, 0)
           /\ outFile.data[p] = Pixel(255, 0, 0, 255)


(***************************************************************************)
(* C29: with tolerance 0 the chroma key never comes to the ramp            *)
(* (dist - T) / T, so nothing is divided by zero: a pixel gets alpha byte  *)
(* 0 exactly when its RGB is the background colour and 255 otherwise; and  *)
(* for every tolerance in 0..255 the alpha written is an integer in 0..255 *)
(* as computed, not one brought into the byte by the store: 0 up to T,     *)
(* 255 beyond 2T, and on the ramp the a with                               *)
(* a - 1/2 <= 255 * (dist - T) / T < a + 1/2, which is                     *)
(* (2a + 509) * T <= 510 * dist < (2a + 511) * T.                          *)
(***************************************************************************)
\* The ramp is the branch of distances above T and up to 2T.
C29_OnTheRamp(distSquared, T) ==
    T * T < distSquared /\ distSquared <= (2 * T) * (2 * T)

C29_NoRampAtToleranceZero ==
    pc \in {"lc_loop", "lc_done"}
        => \A p \in LocalProcessed :
               LET d == DistSquared(inputFile.data[p], bgColor)
               IN  /\ options.tolerance = <<0>>
                         => /\ tolerance = 0
                            /\ ~C29_OnTheRamp(d, tolerance)
                            /\ data[p][4] = IF d = 0 THEN 0 ELSE 255
                            /\ d = 0 <=> /\ inputFile.data[p][1] = bgColor.r
                                         /\ inputFile.data[p][2] = bgColor.g
                                         /\ inputFile.data[p][3] = bgColor.b
                   /\ tolerance \in 0..255
                         => /\ data[p][4] \in 0..255
                            /\ d <= tolerance * tolerance => data[p][4] = 0
                            /\ d > (2 * tolerance) * (2 * tolerance) => data[p][4] = 255
                            /\ C29_OnTheRamp(d, tolerance)
                                  => LET lo == (2 * data[p][4] + 509) * tolerance
                                         hi == (2 * data[p][4] + 511) * tolerance
                                     IN  /\ data[p][4] = 0
                                               \/ FracLe(lo, 510 * 510, d, lo)
                                         /\ data[p][4] = 255
                                               \/ ~FracLe(hi, 510 * 510, d, hi)

\* With tolerance 0 and green as background, a green pixel has come out
\* transparent and a pixel one step from green opaque.
C29_Witness ==
    /\ pc = "lc_done"
    /\ options.tolerance = <<0>>
    /\ bgColor = [r |-> 0, g |-> 255, b |-> 0]
    /\ \E p \in 1..Len(outFile.data) : \E q \in 1..Len(outFile.data) :
           /\ inputFile.data[p] = Pixel(0, 255, 0, 255)
           /\ outFile.data[p][4] = 0
           /\ inputFile.data[q] # Pixel(0, 255, 0, 255)
           /\ DistSquared(inputFile.data[q], bgColor) <= 30 * 30
           /\ outFile.data[q][4] = 255


(***************************************************************************)
(* C30: in the transparent commands the reference images given with -r are *)
(* checked and read before the call (a missing one ends the command with   *)
(* no call made, more than 14 is an error of parseArgs), but the           *)
(* generateImage request of generateWithTransparency carries none of them, *)
(* whatever was given; the request of generate, icon, logo and ui carries  *)
(* all of them.                                                            *)
(***************************************************************************)
C30_Generations == {e \in did[CliCall] : e[1] = "generateImage"}

C30_ReferenceImagesStopAtTheTransparentHandler ==
    argv # <<>> /\ argv[1] \in GenerateCommands \cup TransparentCommands =>
        LET refs == Parsed.referenceImages
        IN  /\ argv[1] \in TransparentCommands
                  => \A e \in C30_Generations :
                        e = <<"generateImage",
                              getModelsForMethod(MethodOf(Parsed.method)).generate, <<>>>>
            /\ argv[1] \in GenerateCommands
                  => \A e \in C30_Generations : e[3] = refs
            /\ fn[CliCall] # "none" /\ refs # <<>>
                  => /\ <<"loadReferenceImages">> \in did[CliCall]
                     /\ \A n \in 1..Len(refs) : FileExists(refs[n])
                     /\ Len(refs) <= MAX_REFERENCE_IMAGES
            /\ ( /\ cli.at \notin {"idle", "exited", "confirming", "cancelled", "proceeding"}
                 /\ refs # <<>> )
                  => <<"loadReferenceImages">> \in did[CliCall]
            /\ ( /\ <<"loadReferenceImages">> \in did[CliCall]
                 /\ \E n \in 1..Len(refs) : ~FileExists(refs[n]) )
                  => /\ cli = [at |-> "exited", error |-> ReferenceImageNotFound]
                     /\ fn[CliCall] = "none"
                     /\ ApiCalls(CliCall) = {}
            /\ Len(refs) > MAX_REFERENCE_IMAGES
                  => /\ cli = [at |-> "exited", error |-> TooManyReferenceImages]
                     /\ did[CliCall] = {}
                     /\ fn[CliCall] = "none"

\* A transparent command with 14 reference images has read them and made
\* its generation request, which carries none.
C30_Witness ==
    /\ argv # <<>>
    /\ argv[1] = "transparent-icon"
    /\ Len(Parsed.referenceImages) = MAX_REFERENCE_IMAGES
    /\ <<"loadReferenceImages">> \in did[CliCall]
    /\ C30_Generations = {<<"generateImage", "nano-banana-pro", <<>>>>}
    /\ cli.at = "done"

====
